---- MODULE Spec2Model ----
(***************************************************************************)
(* Model of the EIHO company-website content manager (FastAPI backend).    *)
(*                                                                         *)
(* Strings that the code trims, splits or scans are sequences of tokens:   *)
(* a token is one character (" ", "x", "|") or one complete markup tag     *)
(* ("[h2]", "[img:1|left]"), so that str.strip, str.split and the regular  *)
(* expression of the content parser are computed, not assumed.             *)
(***************************************************************************)
EXTENDS Integers, Sequences, FiniteSets, TLC

VARIABLES
    item,       \* what the request at hand works on: the stored entry a detail
                \* page shows (body text, images), or the admin form posted
    home,       \* the homepage table: its one row, or no row yet (its rows in id
                \* order where requests overlap)
    news,       \* the news table: its rows, by id
    resp        \* the last request served: what the handler returned and the
                \* locals it computed

vars == <<item, home, news, resp>>

\* ------------------------------------------------------------------ bounds
MaxLen == 4         \* tokens in a body text
MaxImages == 2      \* uploaded images of one news item / service
MaxRows == 2        \* rows of a form list, items of a stored list
MaxRequests == 2    \* requests one client sends
MaxNews == 60      \* news items in a table that is listed by page

\* public_news: "max(1, min(int(limit or 8), 100))"
ApiLimit == 100

\* news_list_page, admin_home: "page_size = 10"
PageSize == 10

\* Python's None, where a str is expected otherwise.
NONE == "<None>"

\* ------------------------------------------------------- str helper methods
\* the tokens str.strip() removes
Whitespace == {" ", "\n", "\r\n"}

RECURSIVE LStrip(_)
LStrip(s) == IF s = <<>> \/ Head(s) \notin Whitespace THEN s ELSE LStrip(Tail(s))

RECURSIVE RStrip(_)
RStrip(s) ==
    IF s = <<>> \/ s[Len(s)] \notin Whitespace THEN s
    ELSE RStrip(SubSeq(s, 1, Len(s) - 1))

\* str.strip()
Strip(s) == RStrip(LStrip(s))

\* s[a:b] with Python's 0-based, end-exclusive indices
Slice(s, a, b) == SubSeq(s, a + 1, b)

\* str.replace("\r\n", "\n")
ReplaceCRLF(s) == [i \in DOMAIN s |-> IF s[i] = "\r\n" THEN "\n" ELSE s[i]]

\* The "|"-separated pieces of one token's characters.
PipeParts(tok) ==
    CASE tok = "|" -> <<"", "">>
      [] tok = "[img:1|left]" -> <<"[img:1", "left]">>
      [] tok = "{{img:2|right}}" -> <<"{{img:2", "right}}">>
      [] OTHER -> <<tok>>

\* acc is the list of pieces so far, the last one still open.
AddToLast(acc, part) ==
    IF part = "" THEN acc ELSE [acc EXCEPT ![Len(acc)] = Append(@, part)]

RECURSIVE AddParts(_, _, _)
AddParts(acc, parts, k) ==
    IF k > Len(parts) THEN acc
    ELSE IF k = 1 THEN AddParts(AddToLast(acc, parts[1]), parts, 2)
    ELSE AddParts(AddToLast(Append(acc, <<>>), parts[k]), parts, k + 1)

RECURSIVE SplitFrom(_, _, _)
SplitFrom(s, i, acc) ==
    IF i > Len(s) THEN acc
    ELSE SplitFrom(s, i + 1, AddParts(acc, PipeParts(s[i]), 1))

\* str.split("|")
SplitPipe(s) == SplitFrom(s, 1, << <<>> >>)

\* [x.strip() for x in raw.split("|") if x.strip()]
RECURSIVE StripNonEmpty(_)
StripNonEmpty(parts) ==
    IF parts = <<>> THEN <<>>
    ELSE LET x == Strip(Head(parts))
         IN  (IF x # <<>> THEN <<x>> ELSE <<>>) \o StripNonEmpty(Tail(parts))

\* ------------------------------------------------- the combined tag pattern
\* groups 1..4 of an image tag: the digits and the optional layout
ImgGroups(tok) ==
    CASE tok = "[img:1|left]" -> [idx_raw |-> "1", layout |-> "left"]
      [] tok = "{{img:2|right}}" -> [idx_raw |-> "2", layout |-> "right"]
      [] tok = "[img:1]" -> [idx_raw |-> "1", layout |-> NONE]
      [] tok = "{{img:0}}" -> [idx_raw |-> "0", layout |-> NONE]

ImgTags == {"[img:1|left]", "{{img:2|right}}", "[img:1]", "{{img:0}}"}

\* int(idx_raw)
ParseInt(d) ==
    CASE d = "0" -> 0 [] d = "1" -> 1 [] d = "2" -> 2

BlockKinds == {"h2", "note", "ul", "ol"}
OpenTag == [h2 |-> "[h2]", note |-> "[note]", ul |-> "[ul]", ol |-> "[ol]"]
CloseTag == [h2 |-> "[/h2]", note |-> "[/note]", ul |-> "[/ul]", ol |-> "[/ol]"]

\* (.*?) followed by the closing tag: the first closing tag after position p
\* (0-based index of the closing tag, or -1)
RECURSIVE FirstClose(_, _, _)
FirstClose(text, q, kind) ==
    IF q >= Len(text) THEN -1
    ELSE IF text[q + 1] = CloseTag[kind] THEN q
    ELSE FirstClose(text, q + 1, kind)

NoMatch == [kind |-> "none"]

\* pattern.match at position p (0-based): the alternatives in their order
MatchAt(text, p) ==
    LET tok == text[p + 1] IN
    IF tok \in ImgTags
    THEN [kind |-> "img", start |-> p, end |-> p + 1,
          idx_raw |-> ImgGroups(tok).idx_raw, layout |-> ImgGroups(tok).layout]
    ELSE IF \E k \in BlockKinds : tok = OpenTag[k]
    THEN LET k == CHOOSE k \in BlockKinds : tok = OpenTag[k]
             q == FirstClose(text, p + 1, k)
         IN  IF q < 0 THEN NoMatch
             ELSE [kind |-> k, start |-> p, end |-> q + 1,
                   inner |-> Slice(text, p + 1, q)]
    ELSE NoMatch

\* mutant of FindIter: every image tag is a match, also inside a block tag
RECURSIVE FindIterImagesFirst(_, _)
FindIterImagesFirst(text, pos) ==
    IF pos >= Len(text) THEN <<>>
    ELSE IF text[pos + 1] \in ImgTags
    THEN <<MatchAt(text, pos)>> \o FindIterImagesFirst(text, pos + 1)
    ELSE FindIterImagesFirst(text, pos + 1)

\* pattern.finditer(text): leftmost matches, non-overlapping
RECURSIVE FindIter(_, _)
FindIter(text, pos) ==
    IF pos >= Len(text) THEN <<>>
    ELSE LET m == MatchAt(text, pos)
         IN  IF m.kind = "none" THEN FindIter(text, pos + 1)
             ELSE <<m>> \o FindIter(text, m.end)

\* ------------------------------------------------------------ news parser
TextBlock(v) == [type |-> "text", value |-> v]

\* before = text[cursor:m.start()]; a text block when it is not blank
NewsBefore(text, m, st) ==
    LET before == Slice(text, st.cursor, m.start)
    IN  IF Strip(before) # <<>>
        THEN Append(st.blocks, TextBlock(Strip(before)))
        ELSE st.blocks

\* mutant of NewsImageTag: "cursor = m.end()" only under the range check
NewsImageTagKeepsCursor(imgs, m, b1, st) ==
    LET layout_raw == IF m.layout # NONE THEN m.layout ELSE "full"
        layout == IF layout_raw \in {"left", "right", "full"}
                  THEN layout_raw ELSE "full"
        img_index == ParseInt(m.idx_raw) - 1
    IN  IF 0 <= img_index /\ img_index < Len(imgs)
        THEN [blocks |-> Append(b1, [type |-> "image",
                                     url |-> imgs[img_index + 1],
                                     layout |-> layout]),
              used_indexes |-> st.used_indexes \cup {img_index},
              cursor |-> m.end]
        ELSE [blocks |-> b1, used_indexes |-> st.used_indexes,
              cursor |-> st.cursor]

\* the branch "if idx_raw is not None" of the loop
NewsImageTag(imgs, m, b1, st) ==
    LET layout_raw == IF m.layout # NONE THEN m.layout ELSE "full"
        layout == IF layout_raw \in {"left", "right", "full"}
                  THEN layout_raw ELSE "full"
        img_index == ParseInt(m.idx_raw) - 1
    IN  IF 0 <= img_index /\ img_index < Len(imgs)
        THEN [blocks |-> Append(b1, [type |-> "image",
                                     url |-> imgs[img_index + 1],
                                     layout |-> layout]),
              used_indexes |-> st.used_indexes \cup {img_index},
              cursor |-> m.end]
        ELSE [blocks |-> b1, used_indexes |-> st.used_indexes,
              cursor |-> m.end]

\* mutant of NewsBlockTag: a block is appended whatever the inner text holds
NewsBlockTagKeepsEmpty(m, b1, st) ==
    LET items == StripNonEmpty(SplitPipe(m.inner))
        val == Strip(m.inner)
        blocks ==
            CASE m.kind = "h2" -> Append(b1, [type |-> "heading", value |-> val])
              [] m.kind = "note" -> Append(b1, [type |-> "note", value |-> val])
              [] m.kind = "ul" ->
                   Append(b1, [type |-> "list", ordered |-> FALSE, list_items |-> items])
              [] m.kind = "ol" ->
                   Append(b1, [type |-> "list", ordered |-> TRUE, list_items |-> items])
    IN  [blocks |-> blocks, used_indexes |-> st.used_indexes, cursor |-> m.end]

\* the branches for groups 5..8: [h2], [note], [ul], [ol]
NewsBlockTag(m, b1, st) ==
    LET items == StripNonEmpty(SplitPipe(m.inner))
        val == Strip(m.inner)
        blocks ==
            CASE m.kind = "h2" ->
                   IF val # <<>>
                   THEN Append(b1, [type |-> "heading", value |-> val]) ELSE b1
              [] m.kind = "note" ->
                   IF val # <<>>
                   THEN Append(b1, [type |-> "note", value |-> val]) ELSE b1
              [] m.kind = "ul" ->
                   IF items # <<>>
                   THEN Append(b1, [type |-> "list", ordered |-> FALSE,
                                    list_items |-> items])
                   ELSE b1
              [] m.kind = "ol" ->
                   IF items # <<>>
                   THEN Append(b1, [type |-> "list", ordered |-> TRUE,
                                    list_items |-> items])
                   ELSE b1
    IN  [blocks |-> blocks, used_indexes |-> st.used_indexes, cursor |-> m.end]

\* "for m in pattern.finditer(text)", from the k-th match on
RECURSIVE NewsLoop(_, _, _, _, _)
NewsLoop(text, imgs, ms, k, st) ==
    IF k > Len(ms) THEN st
    ELSE LET m == ms[k]
             b1 == NewsBefore(text, m, st)
         IN  NewsLoop(text, imgs, ms, k + 1,
                      IF m.kind = "img" THEN NewsImageTag(imgs, m, b1, st)
                      ELSE NewsBlockTag(m, b1, st))

\* mutant of NewsTail: the trailing text is kept untrimmed
NewsTailUntrimmed(text, st) ==
    LET tail == Slice(text, st.cursor, Len(text))
    IN  IF Strip(tail) # <<>> THEN Append(st.blocks, TextBlock(tail))
        ELSE st.blocks

\* tail = text[cursor:]; a last text block when it is not blank
NewsTail(text, st) ==
    LET tail == Slice(text, st.cursor, Len(text))
    IN  IF Strip(tail) # <<>> THEN Append(st.blocks, TextBlock(Strip(tail)))
        ELSE st.blocks

\* is_side_image
NewsIsSideImage(block) ==
    block.type = "image" /\ block.layout \in {"left", "right"}

\* mutant of NewsRowEnd: a row takes at most one more image
NewsRowEndPair(blocks, j) ==
    IF j < Len(blocks) /\ NewsIsSideImage(blocks[j + 1]) THEN j + 1 ELSE j

\* the inner "while j < len(blocks)": the index after the run of side images
RECURSIVE NewsRowEnd(_, _)
NewsRowEnd(blocks, j) ==
    IF j < Len(blocks) /\ NewsIsSideImage(blocks[j + 1])
    THEN NewsRowEnd(blocks, j + 1)
    ELSE j

\* the outer "while i < len(blocks)"
RECURSIVE NewsCompact(_, _)
NewsCompact(blocks, i) ==
    IF i >= Len(blocks) THEN <<>>
    ELSE IF ~NewsIsSideImage(blocks[i + 1])
    THEN <<blocks[i + 1]>> \o NewsCompact(blocks, i + 1)
    ELSE LET j == NewsRowEnd(blocks, i + 1)
         IN  <<[type |-> "image_row", row_images |-> Slice(blocks, i, j)]>>
             \o NewsCompact(blocks, j)

\* mutant of NewsRemaining: filters by url instead of by index
RECURSIVE NewsRemainingByUrl(_, _, _)
NewsRemainingByUrl(imgs, used, idx) ==
    IF idx >= Len(imgs) THEN <<>>
    ELSE (IF imgs[idx + 1] \notin {imgs[u + 1] : u \in used}
          THEN <<imgs[idx + 1]>> ELSE <<>>)
         \o NewsRemainingByUrl(imgs, used, idx + 1)

\* [url for idx, url in enumerate(images) if idx not in used_indexes]
RECURSIVE NewsRemaining(_, _, _)
NewsRemaining(imgs, used, idx) ==
    IF idx >= Len(imgs) THEN <<>>
    ELSE (IF idx \notin used THEN <<imgs[idx + 1]>> ELSE <<>>)
         \o NewsRemaining(imgs, used, idx + 1)

\* _build_news_content_blocks(body, images): what it returns (compact_blocks,
\* remaining_images) and its locals blocks and used_indexes
build_news_content_blocks(b, imgs) ==
    LET text == ReplaceCRLF(b)
        st == NewsLoop(text, imgs, FindIter(text, 0), 1,
                       [blocks |-> <<>>, used_indexes |-> {}, cursor |-> 0])
        blocks == NewsTail(text, st)
    IN  [blocks |-> blocks,
         used_indexes |-> st.used_indexes,
         compact_blocks |-> NewsCompact(blocks, 0),
         remaining_images |-> NewsRemaining(imgs, st.used_indexes, 0)]

\* --------------------------------------------------------- service parser
ServiceBefore(text, m, st) ==
    LET before == Slice(text, st.cursor, m.start)
    IN  IF Strip(before) # <<>>
        THEN Append(st.blocks, TextBlock(Strip(before)))
        ELSE st.blocks

ServiceImageTag(imgs, m, b1, st) ==
    LET layout_raw == IF m.layout # NONE THEN m.layout ELSE "full"
        layout == IF layout_raw \in {"left", "right", "full"}
                  THEN layout_raw ELSE "full"
        img_index == ParseInt(m.idx_raw) - 1
    IN  IF 0 <= img_index /\ img_index < Len(imgs)
        THEN [blocks |-> Append(b1, [type |-> "image",
                                     url |-> imgs[img_index + 1],
                                     layout |-> layout]),
              used_indexes |-> st.used_indexes \cup {img_index},
              cursor |-> m.end]
        ELSE [blocks |-> b1, used_indexes |-> st.used_indexes,
              cursor |-> m.end]

ServiceBlockTag(m, b1, st) ==
    LET items == StripNonEmpty(SplitPipe(m.inner))
        val == Strip(m.inner)
        blocks ==
            CASE m.kind = "h2" ->
                   IF val # <<>>
                   THEN Append(b1, [type |-> "heading", value |-> val]) ELSE b1
              [] m.kind = "note" ->
                   IF val # <<>>
                   THEN Append(b1, [type |-> "note", value |-> val]) ELSE b1
              [] m.kind = "ul" ->
                   IF items # <<>>
                   THEN Append(b1, [type |-> "list", ordered |-> FALSE,
                                    list_items |-> items])
                   ELSE b1
              [] m.kind = "ol" ->
                   IF items # <<>>
                   THEN Append(b1, [type |-> "list", ordered |-> TRUE,
                                    list_items |-> items])
                   ELSE b1
    IN  [blocks |-> blocks, used_indexes |-> st.used_indexes, cursor |-> m.end]

RECURSIVE ServiceLoop(_, _, _, _, _)
ServiceLoop(text, imgs, ms, k, st) ==
    IF k > Len(ms) THEN st
    ELSE LET m == ms[k]
             b1 == ServiceBefore(text, m, st)
         IN  ServiceLoop(text, imgs, ms, k + 1,
                         IF m.kind = "img" THEN ServiceImageTag(imgs, m, b1, st)
                         ELSE ServiceBlockTag(m, b1, st))

\* mutant of ServiceTail: the text after the last tag is kept as it is
ServiceTailUntrimmed(text, st) ==
    LET tail == Slice(text, st.cursor, Len(text))
    IN  IF Strip(tail) # <<>> THEN Append(st.blocks, TextBlock(tail))
        ELSE st.blocks

ServiceTail(text, st) ==
    LET tail == Slice(text, st.cursor, Len(text))
    IN  IF Strip(tail) # <<>> THEN Append(st.blocks, TextBlock(Strip(tail)))
        ELSE st.blocks

ServiceIsSideImage(block) ==
    block.type = "image" /\ block.layout \in {"left", "right"}

\* mutant of ServiceRowEnd: a row takes at most one more image
ServiceRowEndPair(blocks, j) ==
    IF j < Len(blocks) /\ ServiceIsSideImage(blocks[j + 1]) THEN j + 1 ELSE j

RECURSIVE ServiceRowEnd(_, _)
ServiceRowEnd(blocks, j) ==
    IF j < Len(blocks) /\ ServiceIsSideImage(blocks[j + 1])
    THEN ServiceRowEnd(blocks, j + 1)
    ELSE j

RECURSIVE ServiceCompact(_, _)
ServiceCompact(blocks, i) ==
    IF i >= Len(blocks) THEN <<>>
    ELSE IF ~ServiceIsSideImage(blocks[i + 1])
    THEN <<blocks[i + 1]>> \o ServiceCompact(blocks, i + 1)
    ELSE LET j == ServiceRowEnd(blocks, i + 1)
         IN  <<[type |-> "image_row", row_images |-> Slice(blocks, i, j)]>>
             \o ServiceCompact(blocks, j)

RECURSIVE ServiceRemaining(_, _, _)
ServiceRemaining(imgs, used, i) ==
    IF i >= Len(imgs) THEN <<>>
    ELSE (IF i \notin used THEN <<imgs[i + 1]>> ELSE <<>>)
         \o ServiceRemaining(imgs, used, i + 1)

\* _build_service_content_blocks(detail_body, images)
build_service_content_blocks(detail_body, imgs) ==
    LET text == ReplaceCRLF(detail_body)
        st == ServiceLoop(text, imgs, FindIter(text, 0), 1,
                          [blocks |-> <<>>, used_indexes |-> {}, cursor |-> 0])
        blocks == ServiceTail(text, st)
    IN  [blocks |-> blocks,
         used_indexes |-> st.used_indexes,
         compact_blocks |-> ServiceCompact(blocks, 0),
         remaining_images |-> ServiceRemaining(imgs, st.used_indexes, 0)]

\* ----------------------------------------------------------- the handlers
Idle == [op |-> "none"]

\* the tables as Base.metadata.create_all leaves them: no row
NoHome == [row |-> "none"]
NoNews == <<>>

\* mutant of NewsFallback: the fallback text is the body as stored
NewsFallbackUntrimmed(content_blocks, item_body) ==
    IF content_blocks = <<>> /\ Strip(item_body) # <<>>
    THEN <<TextBlock(item_body)>>
    ELSE content_blocks

\* news_detail: "if not content_blocks and str(item.body or '').strip()"
NewsFallback(content_blocks, item_body) ==
    IF content_blocks = <<>> /\ Strip(item_body) # <<>>
    THEN <<TextBlock(Strip(item_body))>>
    ELSE content_blocks

\* service_detail: "if not content_blocks and str(raw.get('body') or '').strip()"
ServiceFallback(content_blocks, raw_body) ==
    IF content_blocks = <<>> /\ Strip(raw_body) # <<>>
    THEN <<TextBlock(Strip(raw_body))>>
    ELSE content_blocks

\* ------------------------------------------------------------- the inputs
\* bodies that place images between paragraphs, bodies that use block tags,
\* and bodies with an image tag inside or next to a list
ImageAlphabet == {"x", " ", "[img:1|left]", "{{img:2|right}}", "[img:1]", "{{img:0}}"}
BlockAlphabet == {"x", " ", "|", "[h2]", "[/h2]", "[ul]", "[/ul]"}
NestedAlphabet == {"x", "[ul]", "[/ul]", "[img:1|left]"}
\* an image tag without digits: (\d+) does not match "abc", so the token is
\* no match of the pattern (MatchAt) and is plain text to the scan
MalformedAlphabet == {"x", "[img:abc]", "[img:1]"}
Urls == {"a.png", "b.png"}

SeqsUpTo(S, n) == UNION {[1..k -> S] : k \in 0..n}

\* bodies with image tags, and bodies without any
TaggedBodies ==
    SeqsUpTo(ImageAlphabet, MaxLen) \cup SeqsUpTo(NestedAlphabet, MaxLen)
      \cup SeqsUpTo(MalformedAlphabet, MaxLen)
PlainBodies == SeqsUpTo(BlockAlphabet, MaxLen)

\* the url names are interchangeable: the first image is "a.png"
ImageLists == {s \in SeqsUpTo(Urls, MaxImages) : s = <<>> \/ s[1] = "a.png"}

\* the entries shown: a body without image tags comes with at most one image
Items == [body : TaggedBodies, images : ImageLists]
           \cup [body : PlainBodies, images : {s \in ImageLists : Len(s) <= 1}]

\* the summary field raw["body"] of the service shown
Summaries == {<<" ">>, <<" ", "x">>}

\* news_detail of a published item, from the parser call to the template context
NewsDetail ==
    /\ resp = Idle
    /\ LET p == build_news_content_blocks(item.body, item.images)
       IN  resp' = [op |-> "news_detail", body |-> item.body, images |-> item.images,
                    parsed |-> p,
                    content_blocks |-> NewsFallback(p.compact_blocks, item.body),
                    images_remaining |-> p.remaining_images]
    /\ UNCHANGED <<item, home, news>>

\* service_detail of an existing service, from the parser call on; the item
\* holds the service's detail_body and detail_images
ServiceDetail ==
    /\ resp = Idle
    /\ \E raw_body \in Summaries :
         LET p == build_service_content_blocks(item.body, item.images)
         IN  resp' = [op |-> "service_detail", body |-> item.body,
                      images |-> item.images, raw_body |-> raw_body,
                      parsed |-> p,
                      content_blocks |-> ServiceFallback(p.compact_blocks, raw_body),
                      images_remaining |-> p.remaining_images]
    /\ UNCHANGED <<item, home, news>>

InitParser ==
    /\ item \in Items
    /\ home = NoHome
    /\ news = NoNews
    /\ resp = Idle

NextParser == NewsDetail \/ ServiceDetail

SpecParser == InitParser /\ [][NextParser]_vars

\* =================================================== claims on the parser
\* What the claims say, stated on the request and the result in resp without
\* the parser's own helpers; ms is the list of tag matches of the text.
ParserRan == resp.op \in {"news_detail", "service_detail"}

NonBlank(s) == \E k \in DOMAIN s : s[k] \notin {" ", "\n", "\r\n"}
Min(S) == CHOOSE x \in S : \A y \in S : x <= y
Max(S) == CHOOSE x \in S : \A y \in S : x >= y
\* s without its leading and trailing whitespace
Trimmed(s) ==
    LET ink == {k \in DOMAIN s : s[k] \notin {" ", "\n", "\r\n"}}
    IN  IF ink = {} THEN <<>> ELSE SubSeq(s, Min(ink), Max(ink))

\* the i-th stretch of plain text: before the first tag (i = 0), between the
\* i-th and the next tag, after the last tag (i = Len(ms))
Stretch(text, ms, i) ==
    Slice(text,
          IF i = 0 THEN 0 ELSE ms[i].end,
          IF i = Len(ms) THEN Len(text) ELSE ms[i + 1].start)

BlockTypeOf(kind) ==
    CASE kind = "img" -> "image" [] kind = "h2" -> "heading"
      [] kind = "note" -> "note" [] kind \in {"ul", "ol"} -> "list"

\* stretches and tags in text order; a tag may emit no block, a non-blank
\* stretch emits its text block
RECURSIVE SkeletonFrom(_, _, _)
SkeletonFrom(text, ms, i) ==
    LET stretch == Stretch(text, ms, i)
    IN  (IF NonBlank(stretch)
         THEN <<[must |-> TRUE, block |-> [type |-> "text", value |-> Trimmed(stretch)]]>>
         ELSE <<>>)
        \o (IF i = Len(ms) THEN <<>>
            ELSE <<[must |-> FALSE, type |-> BlockTypeOf(ms[i + 1].kind)]>>
                 \o SkeletonFrom(text, ms, i + 1))

RECURSIVE Fits(_, _)
Fits(blocks, skel) ==
    IF skel = <<>> THEN blocks = <<>>
    ELSE IF Head(skel).must
    THEN /\ blocks # <<>>
         /\ Head(blocks) = Head(skel).block
         /\ Fits(Tail(blocks), Tail(skel))
    ELSE \/ Fits(blocks, Tail(skel))
         \/ /\ blocks # <<>>
            /\ Head(blocks).type = Head(skel).type
            /\ Fits(Tail(blocks), Tail(skel))

TextBlocksOf(blocks) == SelectSeq(blocks, LAMBDA b : b.type = "text")

\* C1: the parser emits its blocks in text order: every non-blank stretch of
\* plain text (before the first tag, between two tags, after the last tag)
\* gives exactly one text block with the stretch trimmed, a blank stretch
\* gives none, and a tag's block stands between the text blocks of the
\* stretches around it.
C1_BlocksInTextOrder ==
    ParserRan =>
        LET text == ReplaceCRLF(resp.body)
            ms == FindIter(text, 0)
        IN  /\ Fits(resp.parsed.blocks, SkeletonFrom(text, ms, 0))
            /\ TextBlocksOf(resp.parsed.compact_blocks) = TextBlocksOf(resp.parsed.blocks)

C1_Witness ==
    /\ resp.op = "news_detail"
    /\ LET text == ReplaceCRLF(resp.body)
           ms == FindIter(text, 0)
       IN  /\ Len(ms) >= 1
           /\ \E i \in 0..Len(ms) :
                Stretch(text, ms, i) # <<>> /\ ~NonBlank(Stretch(text, ms, i))
           /\ \E i \in 0..Len(ms) :
                /\ NonBlank(Stretch(text, ms, i))
                /\ Stretch(text, ms, i) # Trimmed(Stretch(text, ms, i))
    /\ Len(resp.parsed.blocks) >= 2

\* the number N an image tag names
TagNumber(tok) ==
    CASE tok \in {"[img:1|left]", "[img:1]"} -> 1
      [] tok = "{{img:2|right}}" -> 2
      [] tok = "{{img:0}}" -> 0

\* the numbers named by the image tags the scan recognizes, as a bag would
\* hold them: the set of (match position, N)
TagNumbers(text, ms) ==
    {<<k, TagNumber(text[ms[k].start + 1])>> : k \in {k \in DOMAIN ms : ms[k].kind = "img"}}

KthSmallest(S, k) == CHOOSE x \in S : Cardinality({y \in S : y < x}) = k - 1

\* C2: the leftover images are the images whose 0-based index no image tag
\* consumed, in their original order; used and leftover indexes are disjoint
\* and together are every index.
C2_LeftoverIsComplement ==
    ParserRan =>
        LET text == ReplaceCRLF(resp.body)
            tags == TagNumbers(text, FindIter(text, 0))
            all == 0..(Len(resp.images) - 1)
            used == resp.parsed.used_indexes
            left == all \ used
            rem == resp.images_remaining
        IN  /\ used = {t[2] - 1 : t \in {t \in tags : t[2] \in 1..Len(resp.images)}}
            /\ used \subseteq all
            /\ Len(rem) = Cardinality(left)
            /\ \A k \in 1..Len(rem) : rem[k] = resp.images[KthSmallest(left, k) + 1]

C2_Witness ==
    /\ resp.op = "service_detail"
    /\ Len(resp.images) = 2 /\ resp.images[1] = resp.images[2]
    /\ resp.parsed.used_indexes = {0}
    /\ resp.images_remaining = <<resp.images[2]>>

\* C3: an image tag whose N is not in 1..len(images) gives no image block and
\* no used index, raises nothing, and is consumed: no text block of the
\* parser holds an image tag.
C3_OutOfRangeTagDropped ==
    ParserRan =>
        LET text == ReplaceCRLF(resp.body)
            tags == TagNumbers(text, FindIter(text, 0))
            inRange == {t \in tags : t[2] \in 1..Len(resp.images)}
            bl == resp.parsed.blocks
        IN  /\ Cardinality({i \in DOMAIN bl : bl[i].type = "image"}) = Cardinality(inRange)
            /\ resp.parsed.used_indexes \cap {t[2] - 1 : t \in tags \ inRange} = {}
            /\ \A i \in DOMAIN bl : bl[i].type = "text" =>
                 \A t \in DOMAIN bl[i].value :
                     bl[i].value[t] \notin {"[img:1|left]", "[img:1]", "{{img:2|right}}", "{{img:0}}"}

C3_Witness ==
    /\ resp.op = "news_detail"
    /\ Len(resp.images) = 1
    /\ LET text == ReplaceCRLF(resp.body)
           tags == TagNumbers(text, FindIter(text, 0))
       IN  (\E t \in tags : t[2] = 0) /\ (\E t \in tags : t[2] = 2)
    /\ \E i \in DOMAIN resp.parsed.blocks : resp.parsed.blocks[i].type = "text"

\* B compacted is Cm: every maximal run of left/right images of B is one
\* image_row of Cm, every other block of B is in Cm as it is, in B's order
RunsCompacted(B, Cm) ==
    LET side(k) == B[k].type = "image" /\ B[k].layout \in {"left", "right"}
        runStart(k) == side(k) /\ (k = 1 \/ ~side(k - 1))
        others(i) == Cardinality({k \in 1..i : ~side(k)})
        runs(i) == Cardinality({k \in 1..i : runStart(k)})
        runEnd(a) == CHOOSE b \in a..Len(B) :
                        /\ \A k \in a..b : side(k)
                        /\ b = Len(B) \/ ~side(b + 1)
    IN  /\ Len(Cm) = others(Len(B)) + runs(Len(B))
        /\ \A i \in DOMAIN B : ~side(i) => Cm[others(i) + runs(i)] = B[i]
        /\ \A a \in DOMAIN B : runStart(a) =>
             Cm[others(a) + runs(a)]
               = [type |-> "image_row", row_images |-> SubSeq(B, a, runEnd(a))]

\* C4: compaction replaces every maximal run of consecutive left/right image
\* blocks by one image_row holding exactly those images in order, and leaves
\* every other block unchanged at its place.
C4_RowCompaction ==
    ParserRan => RunsCompacted(resp.parsed.blocks, resp.parsed.compact_blocks)

\* three left/right images and then a full one: one row of three, one image
C4_Witness ==
    /\ resp.op = "news_detail"
    /\ Len(resp.parsed.blocks) = 4
    /\ \A k \in 1..3 : resp.parsed.blocks[k].type = "image"
                       /\ resp.parsed.blocks[k].layout \in {"left", "right"}
    /\ resp.parsed.blocks[4].type = "image" /\ resp.parsed.blocks[4].layout = "full"
    /\ Len(resp.parsed.compact_blocks) = 2
    /\ Len(resp.parsed.compact_blocks[1].row_images) = 3
    /\ resp.parsed.compact_blocks[2] = resp.parsed.blocks[4]

\* the text the page falls back to: the body (news), the summary (service)
FallbackText == IF resp.op = "news_detail" THEN resp.body ELSE resp.raw_body

\* C5: when the parser returns no block and the news body (for a service:
\* its summary) is not blank, the page gets exactly one text block with that
\* text trimmed; the page gets no block only when that text is blank.
C5_FallbackTextBlock ==
    ParserRan =>
        /\ (resp.parsed.compact_blocks = <<>> /\ NonBlank(FallbackText))
              => resp.content_blocks = <<[type |-> "text", value |-> Trimmed(FallbackText)]>>
        /\ resp.parsed.compact_blocks # <<>> => resp.content_blocks = resp.parsed.compact_blocks
        /\ resp.content_blocks = <<>> => ~NonBlank(FallbackText)

C5_Witness ==
    /\ resp.op = "news_detail"
    /\ resp.parsed.compact_blocks = <<>>
    /\ resp.body # Trimmed(resp.body)
    /\ Len(resp.content_blocks) = 1

\* ================================================== the home record store
\* Texts that are not ASCII are written by an ASCII stand-in; the comment
\* next to a stand-in gives the text of the source.

\* Python's None where a str can stand (Optional[str])
None == <<NONE>>

\* "v or d" for an Optional[str]
StrOr(v, d) == IF v = None \/ v = <<>> THEN d ELSE v

\* ------------------------------------------------------------ JSON values
\* what json.loads returns and json.dumps takes
JNull == [t |-> "null"]
JStr(s) == [t |-> "str", s |-> s]
JInt(n) == [t |-> "int", n |-> n]
JList(xs) == [t |-> "list", xs |-> xs]
JDict(m) == [t |-> "dict", m |-> m]

\* a Text column: NULL, "", " ", a text that is not JSON, or the JSON text
\* of a value
TextNull == [kind |-> "null"]
TextEmpty == [kind |-> "empty"]
TextSpace == [kind |-> "space"]
TextInvalid == [kind |-> "invalid"]
TextOf(doc) == [kind |-> "json", doc |-> doc]

\* json.dumps(v, ensure_ascii=False)
Dumps(v) == TextOf(v)

\* json.loads(text); JSONDecodeError is the value Raised
Raised == [t |-> "raise"]
Loads(text) == IF text.kind = "json" THEN text.doc ELSE Raised

\* home.x_json or "[]"
OrEmptyList(text) == IF text.kind \in {"null", "empty"} THEN TextOf(JList(<<>>)) ELSE text

\* text.strip() is not empty, for a str
TextNotBlank(text) == text.kind \notin {"empty", "space"}

\* dict.get(key)
Get(d, key) == IF key \in DOMAIN d.m THEN d.m[key] ELSE JNull

\* bool(v) is False
Falsy(v) ==
    \/ v.t = "null"
    \/ v.t = "str" /\ v.s = <<>>
    \/ v.t = "int" /\ v.n = 0
    \/ v.t = "list" /\ v.xs = <<>>

\* str(v) of a JSON string: the string itself
StrOf(v) == v.s

\* str(d.get(key) or "").strip()
GetStripped(d, key) == IF Falsy(Get(d, key)) THEN <<>> ELSE Strip(StrOf(Get(d, key)))

\* d.get(key) or ""
GetOrEmpty(d, key) == IF Falsy(Get(d, key)) THEN <<>> ELSE StrOf(Get(d, key))

\* ------------------------------------------------------ schemas (pydantic)
\* A model keeps its declared fields; a keyword that is no field of the
\* model is ignored (pydantic's default extra = "ignore").
ServiceItem(title, body, icon, detail_body, detail_images, detail_files) ==
    [title |-> title, body |-> body, icon |-> icon]
StrengthItem(title, body, icon) == [title |-> title, body |-> body, icon |-> icon]
HeroStatItem(value, suffix, label) == [value |-> value, suffix |-> suffix, label |-> label]
ConceptPointItem(label, body) == [label |-> label, body |-> body]

\* model_dump() of one item, as the value json.dumps receives
OptStrDump(v) == IF v = None THEN JNull ELSE JStr(v)
TitledItemDump(x) ==
    JDict([title |-> JStr(x.title), body |-> JStr(x.body), icon |-> OptStrDump(x.icon)])
HeroStatItemDump(x) ==
    JDict([value |-> JInt(x.value), suffix |-> JStr(x.suffix), label |-> JStr(x.label)])
ConceptPointItemDump(x) ==
    JDict([label |-> JStr(x.label), body |-> JStr(x.body)])

\* the list-typed fields of HomeUpdate and the columns that hold them
ListKeys == {"services", "strengths", "hero_stats", "concept_points", "contact_examples"}
JsonColumn ==
    [services |-> "services_json", strengths |-> "strengths_json",
     hero_stats |-> "hero_stats_json", concept_points |-> "concept_points_json",
     contact_examples |-> "contact_examples_json"]

\* the fields of HomeUpdate the model follows: one heading, the six profile
\* columns, the five lists
ScalarKeys == {"hero_title", "company_name", "address", "representative",
               "established", "business_desc", "clients"}
HomeUpdateFields == ScalarKeys \cup ListKeys

\* a list field that is None, and one that holds a list of items
NoneList == [t |-> "none"]
ItemList(xs) == [t |-> "items", xs |-> xs]

\* payload.model_dump(exclude_unset=True)[k] of a list field, dumped
DumpList(k, xs) ==
    JList([i \in DOMAIN xs |->
             CASE k \in {"services", "strengths"} -> TitledItemDump(xs[i])
               [] k = "hero_stats" -> HeroStatItemDump(xs[i])
               [] k = "concept_points" -> ConceptPointItemDump(xs[i])
               [] k = "contact_examples" -> JStr(xs[i])])

\* ------------------------------------------------------------------ crud
\* the row get_or_create_home inserts: the defaults it passes (Japanese copy,
\* written here by ASCII stand-ins) and the column default "[]" where it
\* passes nothing
HomeDefault ==
    [hero_title |-> <<"Bridging car life in Japan and China">>,
     company_name |-> <<"EIHO Co., Ltd.">>,
     address |-> <<"[address]">>,
     representative |-> <<"[representative]">>,
     established |-> <<"[established]">>,
     business_desc |-> <<"import and export of car parts">>,
     clients |-> <<"car shops, makers, trading firms">>,
     hero_stats_json |-> TextOf(JList(<<
        JDict([value |-> JInt(2), suffix |-> JStr(<<"countries">>), label |-> JStr(<<"procurement">>)]),
        JDict([value |-> JInt(3), suffix |-> JStr(<<"fields">>), label |-> JStr(<<"import/export/OEM">>)]),
        JDict([value |-> JInt(100), suffix |-> JStr(<<"%">>), label |-> JStr(<<"inspection">>)])>>)),
     concept_points_json |-> TextOf(JList(<<
        JDict([label |-> JStr(<<"safe">>), body |-> JStr(<<"inspection, standards">>)]),
        JDict([label |-> JStr(<<"comfortable">>), body |-> JStr(<<"function, durability">>)]),
        JDict([label |-> JStr(<<"fun">>), body |-> JStr(<<"accessories">>)])>>)),
     services_json |-> TextOf(JList(<<
        JDict([title |-> JStr(<<"Import">>), body |-> JStr(<<"import body">>),
               icon |-> JStr(<<"box-seam">>)]),
        JDict([title |-> JStr(<<"Export">>), body |-> JStr(<<"export body">>),
               icon |-> JStr(<<"truck">>)]),
        JDict([title |-> JStr(<<"Consulting/OEM">>), body |-> JStr(<<"consulting body">>),
               icon |-> JStr(<<"clipboard2-data">>)])>>)),
     strengths_json |-> TextOf(JList(<<
        JDict([title |-> JStr(<<"Network">>), body |-> JStr(<<"network body">>),
               icon |-> JStr(<<"diagram-3-fill">>)]),
        JDict([title |-> JStr(<<"Quality">>), body |-> JStr(<<"quality body">>),
               icon |-> JStr(<<"shield-check">>)]),
        JDict([title |-> JStr(<<"Flexibility">>), body |-> JStr(<<"flexibility body">>),
               icon |-> JStr(<<"arrows-move">>)])>>)),
     contact_examples_json |-> TextOf(JList(<<
        JStr(<<"import to Japan">>), JStr(<<"export to China">>),
        JStr(<<"OEM">>), JStr(<<"trade practice">>)>>)),
     profile_rows_json |-> TextOf(JList(<<>>))]

\* mutant of get_or_create_home: a row is written on every call
get_or_create_home_always(db_home) == HomeDefault

\* get_or_create_home: the first row, inserted when the table has none
get_or_create_home(db_home) == IF db_home = NoHome THEN HomeDefault ELSE db_home

\* a model_dump() that leaves exclude_unset out: every field, None when unset
ModelDumpWithUnset(payload) ==
    [k \in HomeUpdateFields |->
       IF k \in DOMAIN payload THEN payload[k]
       ELSE IF k \in ListKeys THEN NoneList ELSE None]

\* payload.model_dump(exclude_unset=True): the fields the payload sets
ModelDump(payload) == payload

\* update_home: the row after the loop over the dumped fields and the commit
update_home(db_home, payload) ==
    LET h == get_or_create_home(db_home)
        dumped == ModelDump(payload)
        written == {k \in DOMAIN dumped \cap ListKeys : dumped[k] # NoneList}
    IN  [c \in DOMAIN h |->
           IF \E k \in written : JsonColumn[k] = c
           THEN LET k == CHOOSE k \in written : JsonColumn[k] = c
                IN  Dumps(DumpList(k, dumped[k].xs))
           ELSE IF c \in DOMAIN dumped \cap ScalarKeys
           THEN dumped[c]          \* setattr(home, k, v), None included
           ELSE h[c]]              \* also "services" = None: no column is set

\* --------------------------------------------- str methods on form values
\* the first position of s that holds a token of seps
FirstIn(s, seps) ==
    CHOOSE k \in DOMAIN s : s[k] \in seps /\ \A j \in 1..(k - 1) : s[j] \notin seps

\* the pieces of s between the tokens of seps
RECURSIVE SplitAt(_, _)
SplitAt(s, seps) ==
    IF \A i \in DOMAIN s : s[i] \notin seps THEN <<s>>
    ELSE LET k == FirstIn(s, seps)
         IN  <<SubSeq(s, 1, k - 1)>> \o SplitAt(SubSeq(s, k + 1, Len(s)), seps)

\* str.splitlines(): no line for the empty rest after the last line break
SplitLines(s) ==
    LET pieces == SplitAt(s, {"\n", "\r\n"})
    IN  IF pieces[Len(pieces)] = <<>> THEN SubSeq(pieces, 1, Len(pieces) - 1) ELSE pieces

\* str.replace(a, b) for single characters
ReplaceChar(s, a, b) == [i \in DOMAIN s |-> IF s[i] = a THEN b ELSE s[i]]

\* line.split("|", 1): the part before the first "|" and the part after it
SplitOnce(line) ==
    LET k == FirstIn(line, {"|"})
    IN  [file_name |-> SubSeq(line, 1, k - 1), file_url |-> SubSeq(line, k + 1, Len(line))]

\* Path(urlparse(url).path).name: the path without query and fragment, its
\* trailing slashes dropped, from the last slash on
RECURSIVE DropTrailingSlashes(_)
DropTrailingSlashes(p) ==
    IF p # <<>> /\ p[Len(p)] = "/" THEN DropTrailingSlashes(SubSeq(p, 1, Len(p) - 1)) ELSE p
PathName(url) ==
    LET path == DropTrailingSlashes(Head(SplitAt(url, {"?", "#"})))
        parts == SplitAt(path, {"/"})
    IN  parts[Len(parts)]

\* the placeholder display name of a file (a Chinese word for "file")
FileLabel == <<"[file]">>

\* int(s) of a stripped str: its value, or ValueError
Digits == [c \in {"0", "1", "2", "3", "4", "5", "6", "7", "8", "9"} |->
             CASE c = "0" -> 0 [] c = "1" -> 1 [] c = "2" -> 2 [] c = "3" -> 3
               [] c = "4" -> 4 [] c = "5" -> 5 [] c = "6" -> 6 [] c = "7" -> 7
               [] c = "8" -> 8 [] c = "9" -> 9]
ValueError == -1
RECURSIVE IntOfDigits(_, _)
IntOfDigits(s, acc) ==
    IF s = <<>> THEN acc ELSE IntOfDigits(Tail(s), 10 * acc + Digits[Head(s)])
IntOf(s) ==
    IF s # <<>> /\ \A i \in DOMAIN s : s[i] \in DOMAIN Digits
    THEN IntOfDigits(s, 0) ELSE ValueError

\* --------------------------------------- decoding the lists (admin_views)
\* raw = json.loads(text) if text.strip() else []
LoadsOrEmpty(text) == IF TextNotBlank(text) THEN Loads(text) ELSE JList(<<>>)

\* json.loads raises in a decoder
ParseRaises(text) == LoadsOrEmpty(text) = Raised

\* the dict elements of a decoded list, in order
DictsOf(raw) == SelectSeq(raw.xs, LAMBDA it : it.t = "dict")

\* item.get("icon"): None or the str
OptStrOf(v) == IF v.t = "null" THEN None ELSE StrOf(v)

\* _parse_services: detail_images of one stored item
RECURSIVE ParseImageList(_)
ParseImageList(xs) ==
    IF xs = <<>> THEN <<>>
    ELSE LET line == Head(xs)
             value == IF line.t = "dict"
                      THEN (IF ~Falsy(Get(line, "url")) THEN Strip(StrOf(Get(line, "url")))
                            ELSE GetStripped(line, "src"))
                      ELSE Strip(StrOf(line))
         IN  (IF value # <<>> THEN <<value>> ELSE <<>>) \o ParseImageList(Tail(xs))
ParseDetailImages(it) ==
    LET detail_images_raw == IF Falsy(Get(it, "detail_images")) THEN JList(<<>>)
                             ELSE Get(it, "detail_images")
    IN  IF detail_images_raw.t = "str"
        THEN StripNonEmpty(SplitLines(ReplaceChar(
                 ReplaceChar(detail_images_raw.s, "<fullwidth,>", ","), ",", "\n")))
        ELSE IF detail_images_raw.t = "list" THEN ParseImageList(detail_images_raw.xs)
        ELSE <<>>

\* _parse_services: one line of a detail_files text
ParseFileLine(raw_line) ==
    LET line == Strip(raw_line)
        piped == \E i \in DOMAIN line : line[i] = "|"
        file_url == IF piped THEN Strip(SplitOnce(line).file_url) ELSE line
        file_name == IF piped THEN Strip(SplitOnce(line).file_name)
                     ELSE StrOr(PathName(file_url), FileLabel)
    IN  IF line = <<>> \/ file_url = <<>> THEN <<>>
        ELSE <<[name |-> StrOr(file_name, FileLabel), url |-> file_url]>>

\* _parse_services: one element of a detail_files list
ParseFileRow(row) ==
    LET file_url == IF row.t = "dict" THEN GetStripped(row, "url") ELSE Strip(StrOf(row))
        file_name == IF row.t = "dict" THEN GetStripped(row, "name")
                     ELSE StrOr(PathName(file_url), FileLabel)
    IN  IF file_url = <<>> THEN <<>>
        ELSE <<[name |-> StrOr(file_name, FileLabel), url |-> file_url]>>

RECURSIVE ParseFileLines(_)
ParseFileLines(lines) ==
    IF lines = <<>> THEN <<>> ELSE ParseFileLine(Head(lines)) \o ParseFileLines(Tail(lines))
RECURSIVE ParseFileRows(_)
ParseFileRows(rows) ==
    IF rows = <<>> THEN <<>> ELSE ParseFileRow(Head(rows)) \o ParseFileRows(Tail(rows))

ParseDetailFiles(it) ==
    LET detail_files_raw == IF Falsy(Get(it, "detail_files")) THEN JList(<<>>)
                            ELSE Get(it, "detail_files")
    IN  IF detail_files_raw.t = "str" THEN ParseFileLines(SplitLines(detail_files_raw.s))
        ELSE IF detail_files_raw.t = "list" THEN ParseFileRows(detail_files_raw.xs)
        ELSE <<>>

\* _parse_services: the ServiceItem list of a stored text; Raised when
\* json.loads raises
parse_services(services_json) ==
    LET raw == LoadsOrEmpty(services_json)
    IN  IF raw = Raised THEN Raised
        ELSE IF raw.t # "list" THEN <<>>
        ELSE LET items == DictsOf(raw)
             IN  [i \in DOMAIN items |->
                    ServiceItem(GetOrEmpty(items[i], "title"),
                                GetOrEmpty(items[i], "body"),
                                OptStrOf(Get(items[i], "icon")),
                                GetOrEmpty(items[i], "detail_body"),
                                ParseDetailImages(items[i]),
                                ParseDetailFiles(items[i]))]

\* _parse_strengths
parse_strengths(strengths_json) ==
    LET raw == LoadsOrEmpty(strengths_json)
    IN  IF raw = Raised THEN Raised
        ELSE IF raw.t # "list" THEN <<>>
        ELSE LET items == DictsOf(raw)
             IN  [i \in DOMAIN items |->
                    StrengthItem(GetOrEmpty(items[i], "title"),
                                 GetOrEmpty(items[i], "body"),
                                 OptStrOf(Get(items[i], "icon")))]

\* _parse_hero_stats: int(item.get("value") or 0), 0 when int() raises
HeroValueOf(v) ==
    IF Falsy(v) THEN 0
    ELSE IF v.t = "int" THEN v.n
    ELSE IF v.t = "str" /\ IntOf(Strip(v.s)) # ValueError THEN IntOf(Strip(v.s))
    ELSE 0
parse_hero_stats(stats_json) ==
    LET raw == LoadsOrEmpty(stats_json)
    IN  IF raw = Raised THEN Raised
        ELSE IF raw.t # "list" THEN <<>>
        ELSE LET items == DictsOf(raw)
             IN  [i \in DOMAIN items |->
                    HeroStatItem(HeroValueOf(Get(items[i], "value")),
                                 GetOrEmpty(items[i], "suffix"),
                                 GetOrEmpty(items[i], "label"))]

\* _parse_concept_points
parse_concept_points(points_json) ==
    LET raw == LoadsOrEmpty(points_json)
    IN  IF raw = Raised THEN Raised
        ELSE IF raw.t # "list" THEN <<>>
        ELSE LET items == DictsOf(raw)
             IN  [i \in DOMAIN items |->
                    ConceptPointItem(GetOrEmpty(items[i], "label"),
                                     GetOrEmpty(items[i], "body"))]

\* _parse_contact_examples: the str elements that are not blank, as stored
parse_contact_examples(examples_json) ==
    LET raw == LoadsOrEmpty(examples_json)
    IN  IF raw = Raised THEN Raised
        ELSE IF raw.t # "list" THEN <<>>
        ELSE LET kept == SelectSeq(raw.xs, LAMBDA it : it.t = "str" /\ Strip(it.s) # <<>>)
             IN  [i \in DOMAIN kept |-> kept[i].s]

\* the six fixed rows of the legacy columns; the labels stand for
\* 名称, 所在地, 代表者, 設立, 事業内容, 主要取引先
LegacyRows(h) ==
    <<[label |-> <<"meishou">>, value |-> StrOr(h.company_name, <<>>)],
      [label |-> <<"shozaichi">>, value |-> StrOr(h.address, <<>>)],
      [label |-> <<"daihyousha">>, value |-> StrOr(h.representative, <<>>)],
      [label |-> <<"setsuritsu">>, value |-> StrOr(h.established, <<>>)],
      [label |-> <<"jigyou-naiyou">>, value |-> StrOr(h.business_desc, <<>>)],
      [label |-> <<"shuyou-torihikisaki">>, value |-> StrOr(h.clients, <<>>)]>>

\* the rows of a decoded list that have a label, both fields stripped
StoredRowsLabelled(raw) ==
    LET rows == [i \in DOMAIN DictsOf(raw) |->
                   [label |-> GetStripped(DictsOf(raw)[i], "label"),
                    value |-> GetStripped(DictsOf(raw)[i], "value")]]
    IN  SelectSeq(rows, LAMBDA r : r.label # <<>>)

\* the rows of a decoded list with a label or a value, both stripped
StoredRows(raw) ==
    LET rows == [i \in DOMAIN DictsOf(raw) |->
                   [label |-> GetStripped(DictsOf(raw)[i], "label"),
                    value |-> GetStripped(DictsOf(raw)[i], "value")]]
    IN  SelectSeq(rows, LAMBDA r : r.label # <<>> \/ r.value # <<>>)

\* _parse_profile_rows(rows_json, home)
parse_profile_rows(rows_json, h) ==
    LET raw == IF rows_json.kind # "null" /\ TextNotBlank(rows_json)
               THEN Loads(rows_json) ELSE JList(<<>>)
        out == IF raw.t = "list" THEN StoredRows(raw) ELSE <<>>
    IN  IF raw = Raised THEN Raised
        ELSE IF out # <<>> THEN out
        ELSE LegacyRows(h)

\* ---------------------------------------------------------------- auth
\* the eiho_session cookie of a request: none, one whose signature does not
\* verify, a signed one of another user, a signed one of ADMIN_USER
Tokens == {"none", "forged", "signed:other", "signed:admin"}

\* mutant of is_logged_in: any cookie whose signature verifies is accepted
is_logged_in_signed(token) == token \notin {"none", "forged"}

\* is_logged_in(request)
is_logged_in(token) ==
    IF token = "none" THEN FALSE
    ELSE IF token = "forged" THEN FALSE       \* read_session_token raises
    ELSE token = "signed:admin"

\* ------------------------------------- admin_save: the field normalizers
\* arr[i].strip() if i < len(arr) else ""
StrippedAt(arr, i) == IF i < Len(arr) THEN Strip(arr[i + 1]) ELSE <<>>
\* arr[i] if i < len(arr) else ""
RawAt(arr, i) == IF i < Len(arr) THEN arr[i + 1] ELSE <<>>

\* max(len(a), len(b), ..., 0)
MaxLenOf(arrs) == CHOOSE n \in {Len(arrs[k]) : k \in DOMAIN arrs} \cup {0} :
                    \A k \in DOMAIN arrs : Len(arrs[k]) <= n

\* the items of the rows a builder keeps, in index order
KeptItems(rows) ==
    LET kept == SelectSeq(rows, LAMBDA r : r.keep)
    IN  [i \in DOMAIN kept |-> kept[i].item]

\* mutant of build_items: the loop stops at the shortest array
build_items_shortest(titles, bodies, icons) ==
    LET min_len == Min({Len(titles), Len(bodies), Len(icons)})
        row(i) ==
            LET title == StrippedAt(titles, i)
                body == StrippedAt(bodies, i)
                icon == StrippedAt(icons, i)
            IN  [keep |-> title # <<>> \/ body # <<>> \/ icon # <<>>,
                 item |-> StrengthItem(title, body, IF icon = <<>> THEN None ELSE icon)]
    IN  KeptItems([i \in 1..min_len |-> row(i - 1)])

\* _build_items(titles, bodies, icons, cls); cls is StrengthItem
build_items(titles, bodies, icons) ==
    LET max_len == MaxLenOf(<<titles, bodies, icons>>)
        row(i) ==
            LET title == StrippedAt(titles, i)
                body == StrippedAt(bodies, i)
                icon == StrippedAt(icons, i)
            IN  [keep |-> title # <<>> \/ body # <<>> \/ icon # <<>>,
                 item |-> StrengthItem(title, body, IF icon = <<>> THEN None ELSE icon)]
    IN  KeptItems([i \in 1..max_len |-> row(i - 1)])

\* _build_services: the detail_files of one row
RECURSIVE BuildFileLines(_)
BuildFileLines(lines) ==
    IF lines = <<>> THEN <<>>
    ELSE LET line == Strip(Head(lines))
             piped == \E i \in DOMAIN line : line[i] = "|"
             file_url == IF piped THEN Strip(SplitOnce(line).file_url) ELSE line
             file_name == IF piped THEN Strip(SplitOnce(line).file_name)
                          ELSE StrOr(PathName(file_url), FileLabel)
         IN  (IF line = <<>> \/ file_url = <<>> THEN <<>>
              ELSE <<[name |-> StrOr(file_name, FileLabel), url |-> file_url]>>)
             \o BuildFileLines(Tail(lines))

\* _build_services
build_services(titles, bodies, icons, detail_bodies, detail_images_values, detail_files_values) ==
    LET max_len == MaxLenOf(<<titles, bodies, icons, detail_bodies,
                              detail_images_values, detail_files_values>>)
        row(i) ==
            LET title == StrippedAt(titles, i)
                body == StrippedAt(bodies, i)
                icon == StrippedAt(icons, i)
                detail_body == StrippedAt(detail_bodies, i)
                detail_images_raw == RawAt(detail_images_values, i)
                detail_files_raw == RawAt(detail_files_values, i)
                detail_images == StripNonEmpty(SplitLines(ReplaceChar(
                    ReplaceChar(detail_images_raw, "<fullwidth,>", ","), ",", "\n")))
                detail_files == BuildFileLines(SplitLines(detail_files_raw))
            IN  [keep |-> \/ title # <<>> \/ body # <<>> \/ icon # <<>>
                          \/ detail_body # <<>> \/ detail_images # <<>>
                          \/ detail_files # <<>>,
                 item |-> ServiceItem(title, body,
                                      IF icon = <<>> THEN None ELSE icon,
                                      IF detail_body = <<>> THEN None ELSE detail_body,
                                      detail_images, detail_files)]
    IN  KeptItems([i \in 1..max_len |-> row(i - 1)])

\* _build_hero_stats
build_hero_stats(values, suffixes, labels) ==
    LET max_len == MaxLenOf(<<values, suffixes, labels>>)
        row(i) ==
            LET value_raw == StrippedAt(values, i)
                suffix == StrippedAt(suffixes, i)
                label == StrippedAt(labels, i)
                value == IF value_raw # <<>> /\ IntOf(value_raw) # ValueError
                         THEN IntOf(value_raw) ELSE 0
            IN  [keep |-> value_raw # <<>> \/ suffix # <<>> \/ label # <<>>,
                 item |-> HeroStatItem(value, suffix, label)]
    IN  KeptItems([i \in 1..max_len |-> row(i - 1)])

\* _build_concept_points
build_concept_points(labels, bodies) ==
    LET max_len == MaxLenOf(<<labels, bodies>>)
        row(i) ==
            LET label == StrippedAt(labels, i)
                body == StrippedAt(bodies, i)
            IN  [keep |-> label # <<>> \/ body # <<>>,
                 item |-> ConceptPointItem(label, body)]
    IN  KeptItems([i \in 1..max_len |-> row(i - 1)])

\* _build_simple_list
build_simple_list(values) == StripNonEmpty(values)

\* _build_profile_rows
build_profile_rows(labels, values) ==
    LET max_len == MaxLenOf(<<labels, values>>)
        row(i) ==
            LET label == StrippedAt(labels, i)
                value == StrippedAt(values, i)
            IN  [keep |-> label # <<>> \/ value # <<>>,
                 item |-> [label |-> label, value |-> value]]
    IN  KeptItems([i \in 1..max_len |-> row(i - 1)])

\* _clean
clean(value) == IF Strip(value) # <<>> THEN Strip(value) ELSE None

\* str.lower() and str.replace(" ", "") on the characters a label is made of
Lower(s) == [i \in DOMAIN s |-> IF s[i] = "A" THEN "a" ELSE s[i]]
RemoveSpaces(s) == SelectSeq(s, LAMBDA c : c # " ")

\* the labels _pick_profile_row_value is called with; each stands for a
\* Japanese or Chinese label: 名称/公司名称/会社名, 所在地/地址/住所,
\* 代表者/代表/负责人, 設立/成立/设立, 事業内容/业务内容/事業,
\* 主要取引先/主要客户/取引先
ProfileLabels ==
    [company_name |-> {<<"meishou">>, <<"gongsi-mingcheng">>, <<"kaishamei">>},
     address |-> {<<"shozaichi">>, <<"dizhi">>, <<"juusho">>},
     representative |-> {<<"daihyousha">>, <<"daihyou">>, <<"fuzeren">>},
     established |-> {<<"setsuritsu">>, <<"chengli">>, <<"sheli">>},
     business_desc |-> {<<"jigyou-naiyou">>, <<"yewu-neirong">>, <<"jigyou">>},
     clients |-> {<<"shuyou-torihikisaki">>, <<"zhuyao-kehu">>, <<"torihikisaki">>}]

\* _pick_profile_row_value(rows, labels): the value of the first row whose
\* label is one of labels and whose value is not empty, else ""
pick_profile_row_value(rows, labels) ==
    LET normalized_labels == {RemoveSpaces(Lower(Strip(x))) : x \in labels}
        hit(i) == /\ RemoveSpaces(Lower(Strip(rows[i].label))) \in normalized_labels
                  /\ Strip(rows[i].value) # <<>>
        hits == {i \in DOMAIN rows : hit(i)}
    IN  IF hits = {} THEN <<>>
        ELSE Strip(rows[CHOOSE i \in hits : \A j \in hits : i <= j].value)

\* a or b, for two str
EitherStr(a, b) == IF a # <<>> THEN a ELSE b

\* admin_save from the builders on: the lists it builds, the HomeUpdate it
\* constructs (a keyword that HomeUpdate does not declare -- profile_rows,
\* president_points -- is ignored) and the row update_home leaves
admin_save(db_home, form) ==
    LET services_list == build_services(form.services_title, form.services_body,
                             form.services_icon, form.services_detail_body,
                             form.services_detail_images, form.services_detail_files)
        strengths_list == build_items(form.strengths_title, form.strengths_body,
                                      form.strengths_icon)
        hero_stats_list == build_hero_stats(form.hero_stat_value, form.hero_stat_suffix,
                                            form.hero_stat_label)
        concept_points_list == build_concept_points(form.concept_point_label,
                                                    form.concept_point_body)
        president_points_list == build_simple_list(form.president_point_text)
        contact_examples_list == build_simple_list(form.contact_example_text)
        profile_rows_list == build_profile_rows(form.profile_row_label,
                                                form.profile_row_value)
        from_rows(k) == pick_profile_row_value(profile_rows_list, ProfileLabels[k])
        update_data ==
            [k \in HomeUpdateFields |->
               CASE k = "hero_title" -> clean(form.hero_title)
                 [] k \in DOMAIN ProfileLabels -> clean(EitherStr(from_rows(k), form[k]))
                 [] k = "services" -> ItemList(services_list)
                 [] k = "strengths" -> ItemList(strengths_list)
                 [] k = "hero_stats" -> ItemList(hero_stats_list)
                 [] k = "concept_points" -> ItemList(concept_points_list)
                 [] k = "contact_examples" -> ItemList(contact_examples_list)]
    IN  [home |-> update_home(db_home, update_data),
         resp |-> [op |-> "admin_save",
                   status |-> IF form.accepts_json THEN 200 ELSE 302,
                   location |-> IF form.accepts_json THEN None ELSE <<"/admin?success=1">>,
                   services_list |-> services_list,
                   strengths_list |-> strengths_list,
                   hero_stats_list |-> hero_stats_list,
                   concept_points_list |-> concept_points_list,
                   president_points_list |-> president_points_list,
                   contact_examples_list |-> contact_examples_list,
                   profile_rows_list |-> profile_rows_list,
                   update_data |-> update_data]]

\* the redirect of an admin page without a session
LoginRedirect(op) == [op |-> op, status |-> 302, location |-> <<"/admin/login">>]

\* ------------------------------------------------- reading the home record
\* pydantic's validation of a decoded list against List[<item model>], and
\* the items it gives
IsStr(v) == v.t = "str"
IsOptStr(v) == v.t \in {"str", "null"}
ValidItem(k, it) ==
    CASE k \in {"services", "strengths"} ->
            it.t = "dict" /\ IsStr(Get(it, "title")) /\ IsStr(Get(it, "body"))
            /\ IsOptStr(Get(it, "icon"))
      [] k = "hero_stats" ->
            it.t = "dict" /\ Get(it, "value").t = "int"
            /\ IsStr(Get(it, "suffix")) /\ IsStr(Get(it, "label"))
      [] k = "concept_points" ->
            it.t = "dict" /\ IsStr(Get(it, "label")) /\ IsStr(Get(it, "body"))
      [] k = "contact_examples" -> IsStr(it)
ItemOf(k, it) ==
    CASE k = "services" ->
            ServiceItem(Get(it, "title").s, Get(it, "body").s, OptStrOf(Get(it, "icon")),
                        Get(it, "detail_body"), Get(it, "detail_images"),
                        Get(it, "detail_files"))
      [] k = "strengths" ->
            StrengthItem(Get(it, "title").s, Get(it, "body").s, OptStrOf(Get(it, "icon")))
      [] k = "hero_stats" ->
            HeroStatItem(Get(it, "value").n, Get(it, "suffix").s, Get(it, "label").s)
      [] k = "concept_points" -> ConceptPointItem(Get(it, "label").s, Get(it, "body").s)
      [] k = "contact_examples" -> it.s
ValidList(k, doc) ==
    doc.t = "list" /\ \A i \in DOMAIN doc.xs : ValidItem(k, doc.xs[i])
ItemsOf(k, doc) == [i \in DOMAIN doc.xs |-> ItemOf(k, doc.xs[i])]

\* public_home: the rows of profile_rows_raw that are dicts with a label or
\* a value
PublicStoredRows(profile_rows_raw) ==
    LET kept == SelectSeq(profile_rows_raw.xs,
                    LAMBDA row : row.t = "dict"
                        /\ (GetStripped(row, "label") # <<>> \/ GetStripped(row, "value") # <<>>))
    IN  [i \in DOMAIN kept |->
           [label |-> GetStripped(kept[i], "label"), value |-> GetStripped(kept[i], "value")]]

\* public_home: the six rows of the legacy columns (labels as in LegacyRows)
PublicLegacyRows(h) ==
    <<[label |-> <<"meishou">>, value |-> StrOr(h.company_name, <<>>)],
      [label |-> <<"shozaichi">>, value |-> StrOr(h.address, <<>>)],
      [label |-> <<"daihyousha">>, value |-> StrOr(h.representative, <<>>)],
      [label |-> <<"setsuritsu">>, value |-> StrOr(h.established, <<>>)],
      [label |-> <<"jigyou-naiyou">>, value |-> StrOr(h.business_desc, <<>>)],
      [label |-> <<"shuyou-torihikisaki">>, value |-> StrOr(h.clients, <<>>)]>>

\* public_home: the row it leaves and its response. HomePublic declares no
\* profile_rows field: the rows computed are a local of the handler and the
\* response body is made of the declared fields.
public_home(db_home) ==
    LET h == get_or_create_home(db_home)
        profile_rows_raw == Loads(OrEmptyList(h.profile_rows_json))
        rows == IF profile_rows_raw.t = "list" THEN PublicStoredRows(profile_rows_raw)
                ELSE <<>>
        profile_rows == IF rows = <<>> THEN PublicLegacyRows(h) ELSE rows
        loaded == [k \in ListKeys |-> Loads(OrEmptyList(h[JsonColumn[k]]))]
        failed == \/ profile_rows_raw = Raised
                  \/ \E k \in ListKeys : ~ValidList(k, loaded[k])
    IN  [home |-> h,
         resp |-> IF failed
                  THEN [op |-> "public_home", status |-> 500]
                  ELSE [op |-> "public_home", status |-> 200,
                        profile_rows |-> profile_rows,
                        body |-> [k \in HomeUpdateFields |->
                                    IF k \in ListKeys THEN ItemsOf(k, loaded[k])
                                    ELSE StrOr(h[k], <<>>)]]]

\* admin_home: the home part of the page context (the news list of the page
\* comes from list_news_page)
admin_home(db_home, token) ==
    LET h == get_or_create_home(db_home)
        services == parse_services(OrEmptyList(h.services_json))
        strengths == parse_strengths(OrEmptyList(h.strengths_json))
        hero_stats == parse_hero_stats(OrEmptyList(h.hero_stats_json))
        concept_points == parse_concept_points(OrEmptyList(h.concept_points_json))
        \* getattr(home, "president_points_json", "[]"): HomePage has no such column
        president_points == parse_contact_examples(TextOf(JList(<<>>)))
        contact_examples == parse_contact_examples(OrEmptyList(h.contact_examples_json))
        profile_rows == parse_profile_rows(h.profile_rows_json, h)
        failed == \/ \E k \in ListKeys : ParseRaises(OrEmptyList(h[JsonColumn[k]]))
                  \/ h.profile_rows_json.kind # "null" /\ ParseRaises(h.profile_rows_json)
    IN  IF ~is_logged_in(token)
        THEN [home |-> db_home, resp |-> LoginRedirect("admin_home")]
        ELSE [home |-> h,
              resp |-> IF failed
                       THEN [op |-> "admin_home", status |-> 500]
                       ELSE [op |-> "admin_home", status |-> 200,
                             services |-> services, strengths |-> strengths,
                             hero_stats |-> hero_stats,
                             concept_points |-> concept_points,
                             president_points |-> president_points,
                             contact_examples |-> contact_examples,
                             profile_rows |-> profile_rows]]

\* ------------------------------------------------- PUT /api/admin/home
\* FastAPI's validation of the JSON body against HomeUpdate, and the payload
\* it gives: the declared keys of the body are the fields set
BodyValid(body) ==
    \A k \in DOMAIN body.m \cap HomeUpdateFields :
        IF k \in ListKeys THEN body.m[k].t = "null" \/ ValidList(k, body.m[k])
        ELSE IsOptStr(body.m[k])
HomeUpdateOf(body) ==
    [k \in DOMAIN body.m \cap HomeUpdateFields |->
       IF k \in ListKeys
       THEN (IF body.m[k].t = "null" THEN NoneList ELSE ItemList(ItemsOf(k, body.m[k])))
       ELSE OptStrOf(body.m[k])]

\* admin_update_home
admin_update_home(db_home, token, body) ==
    IF ~BodyValid(body)
    THEN [home |-> db_home, resp |-> [op |-> "admin_update_home", status |-> 422]]
    ELSE IF ~is_logged_in(token)
    THEN [home |-> db_home, resp |-> [op |-> "admin_update_home", status |-> 401]]
    ELSE [home |-> update_home(db_home, HomeUpdateOf(body)),
          resp |-> [op |-> "admin_update_home", status |-> 200,
                    body |-> body, payload |-> HomeUpdateOf(body)]]

\* --------------------------------------------------- requests and actions
\* no detail page is involved
NoItem == [body |-> <<>>, images |-> <<>>]

\* two services as an API client sends them, with the six ServiceItem keys
SvcPlain ==
    JDict([title |-> JStr(<<"A">>), body |-> JStr(<<"B">>), icon |-> JNull,
           detail_body |-> JStr(<<>>), detail_images |-> JList(<<>>),
           detail_files |-> JList(<<>>)])
SvcDetailed ==
    JDict([title |-> JStr(<<"C">>), body |-> JStr(<<"D">>), icon |-> JStr(<<"i">>),
           detail_body |-> JStr(<<"E">>),
           detail_images |-> JList(<<JStr(<<"u">>)>>),
           detail_files |-> JList(<<JDict([name |-> JStr(<<"n">>), url |-> JStr(<<"u">>)])>>)])
ServiceLists == SeqsUpTo({SvcPlain, SvcDetailed}, MaxRows)

\* the JSON bodies of PUT /api/admin/home: every choice of keys among three,
\* one key given as null, a services list
ApiKeys == {"hero_title", "company_name", "services"}
ApiSample ==
    [hero_title |-> JStr(<<"New">>), company_name |-> JStr(<<"Acme">>),
     services |-> JList(<<SvcPlain>>)]
ApiBodies ==
    {JDict([k \in S |-> ApiSample[k]]) : S \in SUBSET ApiKeys}
      \cup {JDict([k \in {key} |-> JNull]) : key \in ApiKeys}
      \cup {JDict([k \in {"services"} |-> JList(xs)]) : xs \in ServiceLists}

AdminUpdateHome ==
    \E token \in Tokens, body \in ApiBodies :
        LET r == admin_update_home(home, token, body)
        IN  /\ home' = r.home
            /\ resp' = r.resp
            /\ UNCHANGED <<item, news>>

PublicHome ==
    LET r == public_home(home)
    IN  /\ home' = r.home
        /\ resp' = r.resp
        /\ UNCHANGED <<item, news>>

AdminHome ==
    \E token \in Tokens :
        LET r == admin_home(home, token)
        IN  /\ home' = r.home
            /\ resp' = r.resp
            /\ UNCHANGED <<item, news>>

\* the home record under updates through the API and reads
InitHome ==
    /\ item = NoItem
    /\ home = NoHome
    /\ news = NoNews
    /\ resp = Idle

NextHome == AdminUpdateHome \/ PublicHome \/ AdminHome

SpecHome == InitHome /\ [][NextHome]_vars


\* ------------------------------------------------- the admin form posted
\* the form with every field left empty, sent by a browser form submit
FormBase ==
    [accepts_json |-> FALSE, hero_title |-> <<>>,
     company_name |-> <<>>, address |-> <<>>, representative |-> <<>>,
     established |-> <<>>, business_desc |-> <<>>, clients |-> <<>>,
     services_title |-> <<>>, services_body |-> <<>>, services_icon |-> <<>>,
     services_detail_body |-> <<>>, services_detail_images |-> <<>>,
     services_detail_files |-> <<>>,
     strengths_title |-> <<>>, strengths_body |-> <<>>, strengths_icon |-> <<>>,
     hero_stat_value |-> <<>>, hero_stat_suffix |-> <<>>, hero_stat_label |-> <<>>,
     concept_point_label |-> <<>>, concept_point_body |-> <<>>,
     president_point_text |-> <<>>, contact_example_text |-> <<>>,
     profile_row_label |-> <<>>, profile_row_value |-> <<>>]

\* what an input of the form holds: blank, or a text with a space around it
Cells == {<<" ">>, <<"a", " ">>}
Columns == SeqsUpTo(Cells, MaxRows)

StrengthForms ==
    {[FormBase EXCEPT !.strengths_title = t, !.strengths_body = b, !.strengths_icon = i] :
        t \in Columns, b \in Columns, i \in Columns}

ServiceForms ==
    {[FormBase EXCEPT !.services_title = t, !.services_icon = i,
                      !.services_detail_body = d, !.services_detail_images = g,
                      !.services_detail_files = f] :
        t \in Columns, d \in Columns,
        i \in SeqsUpTo({<<"i">>}, 1),
        g \in SeqsUpTo({<<" ", ",", " ">>, <<"u", "<fullwidth,>", "v">>}, 1),
        f \in SeqsUpTo({<<" ", "|", " ">>, <<"n", "|", "u">>, <<"d", "/", "f">>}, 1)}

HeroStatForms ==
    {[FormBase EXCEPT !.hero_stat_value = v, !.hero_stat_suffix = s,
                      !.hero_stat_label = l] :
        v \in SeqsUpTo({<<" ">>, <<"7">>, <<"a">>, <<" ", "1", "2">>}, MaxRows),
        s \in SeqsUpTo({<<" ">>, <<"%">>}, MaxRows),
        l \in SeqsUpTo({<<"l">>}, 1)}

ConceptPointForms ==
    {[FormBase EXCEPT !.concept_point_label = l, !.concept_point_body = b] :
        l \in Columns, b \in Columns}

SimpleListForms ==
    {[FormBase EXCEPT !.contact_example_text = c, !.president_point_text = p] :
        c \in Columns, p \in SeqsUpTo(Cells, 1)}

ProfileRowForms ==
    {[FormBase EXCEPT !.profile_row_label = l, !.profile_row_value = v,
                      !.company_name = n] :
        l \in SeqsUpTo({<<" ">>, <<" ", "meishou">>, <<"dizhi">>}, MaxRows),
        v \in Columns,
        n \in {<<>>, <<"Acme">>}}

\* the same from a script: it asks for JSON
ScriptForms ==
    {[FormBase EXCEPT !.accepts_json = TRUE, !.hero_title = t] : t \in Cells}

Forms == StrengthForms \cup ServiceForms \cup HeroStatForms \cup ConceptPointForms
           \cup SimpleListForms \cup ProfileRowForms \cup ScriptForms

\* admin_save of the form at hand
AdminSave ==
    \E token \in Tokens :
        LET r == IF is_logged_in(token) THEN admin_save(home, item)
                 ELSE [home |-> home, resp |-> LoginRedirect("admin_save")]
        IN  /\ home' = r.home
            /\ resp' = r.resp
            /\ UNCHANGED <<item, news>>

\* the admin posts a form, then opens the admin page
InitNorm ==
    /\ item \in Forms
    /\ home = NoHome
    /\ news = NoNews
    /\ resp = Idle

NextNorm == AdminSave \/ AdminHome

SpecNorm == InitNorm /\ [][NextNorm]_vars


\* =========================================== claims on the home record
\* a field that is empty after trimming: None, or a str that strips to ""
Blank(v) == v = None \/ Strip(v) = <<>>
\* a record of str fields all of whose fields are Blank
AllBlank(r) == \A f \in DOMAIN r : Blank(r[f])
Saved == resp.op = "admin_save" /\ resp.status \in {200, 302}
    /\ "services_list" \in DOMAIN resp

\* C6: for every item kind (services, strengths, hero stats, concept points,
\* profile rows, simple text lists) the list the Field Normalizer builds from
\* the form arrays holds no record whose fields are all empty after trimming.
\* The value of a hero stat is an int, which has no empty form.
C6_NoAllEmptyRecord ==
    Saved =>
      /\ \A i \in DOMAIN resp.services_list : ~AllBlank(resp.services_list[i])
      /\ \A i \in DOMAIN resp.strengths_list : ~AllBlank(resp.strengths_list[i])
      /\ \A i \in DOMAIN resp.hero_stats_list :
            LET r == resp.hero_stats_list[i]
            IN  ~(Blank(r.suffix) /\ Blank(r.label) /\ r.value \notin Int)
      /\ \A i \in DOMAIN resp.concept_points_list : ~AllBlank(resp.concept_points_list[i])
      /\ \A i \in DOMAIN resp.profile_rows_list : ~AllBlank(resp.profile_rows_list[i])
      /\ \A i \in DOMAIN resp.president_points_list : ~Blank(resp.president_points_list[i])
      /\ \A i \in DOMAIN resp.contact_examples_list : ~Blank(resp.contact_examples_list[i])


\* the Python value of a JSON list of str, and of a list of {name, url}
StrsOf(doc) == [i \in DOMAIN doc.xs |-> doc.xs[i].s]
FilesOf(doc) ==
    [i \in DOMAIN doc.xs |-> [name |-> doc.xs[i].m.name.s, url |-> doc.xs[i].m.url.s]]
\* a field of a decoded item; a field the item does not carry counts as the
\* empty value d of its type
FieldOr(x, f, d) == IF f \in DOMAIN x THEN x[f] ELSE d
\* the decoded item x has the six fields of the record d that was sent
SameService(x, d) ==
    /\ FieldOr(x, "title", <<>>) = d.m.title.s
    /\ FieldOr(x, "body", <<>>) = d.m.body.s
    /\ FieldOr(x, "icon", None) = OptStrOf(d.m.icon)
    /\ FieldOr(x, "detail_body", <<>>) = d.m.detail_body.s
    /\ FieldOr(x, "detail_images", <<>>) = StrsOf(d.m.detail_images)
    /\ FieldOr(x, "detail_files", <<>>) = FilesOf(d.m.detail_files)
ServicesUpdated ==
    /\ resp.op = "admin_update_home" /\ resp.status = 200
    /\ "services" \in DOMAIN resp.body.m
    /\ resp.body.m.services.t = "list"

\* C7: a well-formed list of records with the six ServiceItem fields, encoded
\* into services_json by an update and decoded again by _parse_services, comes
\* back equal to the list sent: same length, same order, every field equal.
C7_ServicesRoundTrip ==
    ServicesUpdated =>
      LET sent == resp.body.m.services.xs
          decoded == parse_services(home.services_json)
      IN  /\ Len(decoded) = Len(sent)
          /\ \A i \in DOMAIN sent : SameService(decoded[i], sent[i])

\* the columns a HomeUpdate names
ColumnsOf(payload) ==
    (DOMAIN payload \cap ScalarKeys) \cup {JsonColumn[k] : k \in DOMAIN payload \cap ListKeys}

RowLabels == {JStr(<<" ">>), JStr(<<" ", "a", " ">>)}
RowValues == {JNull, JStr(<<>>), JStr(<<"v", " ">>)}
RowDocs ==
    {JDict([label |-> l, value |-> v]) : l \in RowLabels, v \in RowValues}
      \cup {JDict([value |-> v]) : v \in RowValues}
      \cup {JStr(<<"s">>)}
ProfileTexts ==
    {TextNull, TextEmpty, TextSpace, TextInvalid, TextOf(JNull),
     TextOf(JDict([label |-> JStr(<<"a">>)]))}
      \cup {TextOf(JList(xs)) : xs \in SeqsUpTo(RowDocs, MaxRows)}
ProfileHomes ==
    {[HomeDefault EXCEPT !.profile_rows_json = t, !.company_name = n, !.address = a] :
        t \in ProfileTexts, n \in {None, <<>>, <<"Acme">>}, a \in {None, <<"Tokyo">>}}

\* the home page and the admin page read a row that is on file
InitProfile ==
    /\ item = NoItem
    /\ home \in ProfileHomes \cup {NoHome}
    /\ news = NoNews
    /\ resp = Idle

NextProfile == PublicHome \/ AdminHome

SpecProfile == InitProfile /\ [][NextProfile]_vars

\* ------------------------------------------------------------ C9
\* a handler has projected the profile rows of the row in home
Projected ==
    /\ resp.op \in {"public_home", "admin_home"}
    /\ resp.status = 200
\* the elements of the stored list; none when the text is no list
RowsOnFile ==
    LET t == home.profile_rows_json
    IN  IF t.kind = "json" /\ t.doc.t = "list" THEN t.doc.xs ELSE <<>>
\* the text of field f of a stored row, trimmed; "" when it has none
Trim(row, f) ==
    IF row.t = "dict" /\ f \in DOMAIN row.m /\ row.m[f].t = "str"
    THEN Strip(row.m[f].s) ELSE <<>>
\* the positions of the stored rows with a label or a value
KeptRows == {i \in DOMAIN RowsOnFile :
                Trim(RowsOnFile[i], "label") # <<>> \/ Trim(RowsOnFile[i], "value") # <<>>}
\* a legacy column, "" when unset
Legacy(c) == IF home[c] = None THEN <<>> ELSE home[c]
\* the six rows of the legacy columns; the labels stand for
\* 名称, 所在地, 代表者, 設立, 事業内容, 主要取引先
SixRows ==
    <<[label |-> <<"meishou">>, value |-> Legacy("company_name")],
      [label |-> <<"shozaichi">>, value |-> Legacy("address")],
      [label |-> <<"daihyousha">>, value |-> Legacy("representative")],
      [label |-> <<"setsuritsu">>, value |-> Legacy("established")],
      [label |-> <<"jigyou-naiyou">>, value |-> Legacy("business_desc")],
      [label |-> <<"shuyou-torihikisaki">>, value |-> Legacy("clients")]>>

C9_WitnessLegacy ==
    /\ Projected /\ resp.op = "admin_home"
    /\ Len(RowsOnFile) = 1 /\ KeptRows = {}
    /\ Len(resp.profile_rows) = 6
    /\ resp.profile_rows[1] = [label |-> <<"meishou">>, value |-> <<"Acme">>]


\* ================================================================ news
\* _parse_news_images(news): the image urls of a row
parse_news_images(row) ==
    LET raw == OrEmptyList(row.image_paths_json)
        parsed == IF Loads(raw) = Raised THEN JList(<<>>) ELSE Loads(raw)
        images == IF parsed.t = "list" THEN ParseImageList(parsed.xs) ELSE <<>>
    IN  IF images = <<>> /\ row.image_path # <<>> THEN <<row.image_path>> ELSE images

\* _parse_news_files(news): the {name, url} files of a row
parse_news_files(row) ==
    LET raw == OrEmptyList(row.file_paths_json)
        parsed == IF Loads(raw) = Raised THEN JList(<<>>) ELSE Loads(raw)
        files == IF parsed.t = "list" THEN ParseFileRows(parsed.xs) ELSE <<>>
    IN  IF files = <<>> /\ row.file_path # <<>>
        THEN <<[name |-> StrOr(PathName(row.file_path), FileLabel), url |-> row.file_path]>>
        ELSE files

\* an upload field of a form: not sent, sent without a file name, a file
Uploads == {"none", "unnamed", "file"}
\* "upload and upload.filename"
HasFile(upload) == upload = "file"
\* the url _store_upload returns for the k-th file a request stores (the name
\* is a fresh uuid4 hex with the suffix of the file)
UploadUrl == <<"new1", "new2", "new3", "new4", "new5">>
\* upload.filename of a file
UploadName == <<"doc.pdf">>

\* the uploads of a request that are stored, the single field first
StoredUploads(single, many) ==
    (IF HasFile(single) THEN <<single>> ELSE <<>>) \o SelectSeq(many, HasFile)
\* the urls of the images stored
StoreImages(single, many) ==
    [k \in DOMAIN StoredUploads(single, many) |-> <<UploadUrl[k]>>]
\* _store_news_file of the files stored
StoreFiles(single, many) ==
    [k \in DOMAIN StoredUploads(single, many) |->
        [name |-> StrOr(UploadName, FileLabel), url |-> <<UploadUrl[k]>>]]

\* crud.create_news: the parameters it declares, and the table it leaves
CreateNewsParams == {"db", "title", "body", "image_path", "file_path", "is_published"}
create_news(table, title, body, image_path, file_path, is_published) ==
    LET id == IF DOMAIN table = {} THEN 1
              ELSE 1 + CHOOSE m \in DOMAIN table : \A j \in DOMAIN table : j <= m
    IN  [i \in DOMAIN table \cup {id} |->
           IF i \in DOMAIN table THEN table[i]
           ELSE [title |-> Strip(title), body |-> body,
                 image_path |-> image_path, file_path |-> file_path,
                 image_paths_json |-> TextOf(JList(<<>>)),
                 file_paths_json |-> TextOf(JList(<<>>)),
                 is_published |-> is_published]]

\* crud.update_news
UpdateNewsParams ==
    {"db", "news_id", "title", "body", "image_path", "file_path", "is_published"}
update_news(table, news_id, title, body, image_path, file_path, is_published) ==
    IF news_id \notin DOMAIN table THEN table
    ELSE [table EXCEPT ![news_id] =
            [@ EXCEPT !.title = Strip(title), !.body = body,
                      !.image_path = IF image_path # None THEN image_path ELSE @,
                      !.file_path = IF file_path # None THEN file_path ELSE @,
                      !.is_published = is_published]]

\* crud.delete_news
delete_news(table, news_id) == [i \in DOMAIN table \ {news_id} |-> table[i]]

\* the redirect of an admin news handler
NewsRedirect(op, url) == [op |-> op, status |-> 302, location |-> <<url>>]

\* admin_create_news. The call of create_news names image_paths and
\* file_paths: with a keyword the function does not declare the call raises
\* TypeError before the function runs, and the request ends as a 500.
admin_create_news(table, req) ==
    LET uploaded_images == StoreImages(req.image, req.images)
        uploaded_files == StoreFiles(req.attachment, req.attachments)
        image_path == IF uploaded_images # <<>> THEN uploaded_images[1] ELSE <<>>
        file_path == IF uploaded_files # <<>> THEN uploaded_files[1].url ELSE <<>>
        keywords == {"db", "title", "body", "image_path", "file_path", "image_paths",
                     "file_paths", "is_published"}
    IN  IF ~is_logged_in(req.token)
        THEN [news |-> table, resp |-> LoginRedirect("admin_create_news")]
        ELSE IF Strip(req.title) = <<>>
        THEN [news |-> table,
              resp |-> NewsRedirect("admin_create_news", "/admin?error=news_title_required")]
        ELSE IF ~(keywords \subseteq CreateNewsParams)
        THEN [news |-> table,
              resp |-> [op |-> "admin_create_news", status |-> 500, error |-> "TypeError",
                        uploaded_images |-> uploaded_images,
                        uploaded_files |-> uploaded_files]]
        ELSE [news |-> create_news(table, req.title, req.body, image_path, file_path,
                                   req.is_published),
              resp |-> NewsRedirect("admin_create_news", "/admin?news=created")]

\* admin_update_news; the call of update_news names image_paths and
\* file_paths as well
admin_update_news(table, req) ==
    LET found == req.news_id \in DOMAIN table
        existing_images == IF found THEN parse_news_images(table[req.news_id]) ELSE <<>>
        existing_files == IF found THEN parse_news_files(table[req.news_id]) ELSE <<>>
        new_images == StoreImages(req.image, req.images)
        new_files == StoreFiles(req.attachment, req.attachments)
        merged_images == IF new_images # <<>> THEN existing_images \o new_images
                         ELSE existing_images
        merged_files == IF new_files # <<>> THEN existing_files \o new_files
                        ELSE existing_files
        image_path == IF merged_images # <<>> THEN merged_images[1] ELSE None
        file_path == IF merged_files # <<>> THEN merged_files[1].url ELSE None
        keywords == {"db", "news_id", "title", "body", "image_path", "file_path",
                     "image_paths", "file_paths", "is_published"}
    IN  IF ~is_logged_in(req.token)
        THEN [news |-> table, resp |-> LoginRedirect("admin_update_news")]
        ELSE IF Strip(req.title) = <<>>
        THEN [news |-> table,
              resp |-> NewsRedirect("admin_update_news", "/admin?error=news_title_required")]
        ELSE IF ~(keywords \subseteq UpdateNewsParams)
        THEN [news |-> table,
              resp |-> [op |-> "admin_update_news", status |-> 500, error |-> "TypeError",
                        news_id |-> req.news_id,
                        existing_images |-> existing_images,
                        existing_files |-> existing_files,
                        new_images |-> new_images, new_files |-> new_files,
                        merged_images |-> merged_images, merged_files |-> merged_files]]
        ELSE [news |-> update_news(table, req.news_id, req.title, req.body, image_path,
                                   file_path, req.is_published),
              resp |-> NewsRedirect("admin_update_news", "/admin?news=updated")]

\* admin_delete_news
admin_delete_news(table, token, news_id) ==
    IF ~is_logged_in(token)
    THEN [news |-> table, resp |-> LoginRedirect("admin_delete_news")]
    ELSE [news |-> delete_news(table, news_id),
          resp |-> NewsRedirect("admin_delete_news", "/admin?news=deleted")]


\* ------------------------------------------------ news rows and requests
\* the image list columns of a row on file: NULL, no JSON, or a list of urls
\* given as str or as {url}
ImageTexts ==
    {TextNull, TextInvalid}
      \cup {TextOf(JList(xs)) :
              xs \in SeqsUpTo({JStr(<<"a.png">>), JDict([url |-> JStr(<<" ", "b.png">>)])},
                              MaxImages)}
FileTexts ==
    {TextOf(JList(<<>>)),
     TextOf(JList(<<JDict([name |-> JStr(<<"n">>), url |-> JStr(<<"f.pdf">>)])>>))}
NewsRows ==
    [title : {<<"t">>}, body : {<<>>}, is_published : {TRUE},
     image_path : {<<>>, <<"old.png">>}, file_path : {<<>>},
     image_paths_json : ImageTexts, file_paths_json : FileTexts]
\* the news table: empty, or one row with id 1
NewsTables == {NoNews} \cup [{1} -> NewsRows]

\* the form of a news request
NewsFormBase ==
    [token |-> "signed:admin", news_id |-> 1, title |-> <<"t", " ">>, body |-> <<"x">>,
     is_published |-> TRUE, image |-> "none", images |-> <<>>,
     attachment |-> "none", attachments |-> <<>>]
NewsForms ==
    {[NewsFormBase EXCEPT !.token = t] : t \in Tokens}
      \cup {[NewsFormBase EXCEPT !.title = <<" ">>]}
      \cup {[NewsFormBase EXCEPT !.image = i, !.images = m] :
              i \in Uploads, m \in SeqsUpTo({"unnamed", "file"}, MaxImages)}
      \cup {[NewsFormBase EXCEPT !.attachment = a, !.attachments = m] :
              a \in Uploads, m \in SeqsUpTo({"unnamed", "file"}, 1)}
NewsIds == {1, 2}

AdminCreateNews ==
    \E req \in NewsForms :
        LET r == admin_create_news(news, req)
        IN  /\ news' = r.news
            /\ resp' = r.resp
            /\ UNCHANGED <<item, home>>

AdminUpdateNews ==
    \E req \in NewsForms, id \in NewsIds :
        LET r == admin_update_news(news, [req EXCEPT !.news_id = id])
        IN  /\ news' = r.news
            /\ resp' = r.resp
            /\ UNCHANGED <<item, home>>

AdminDeleteNews ==
    \E token \in Tokens, id \in NewsIds :
        LET r == admin_delete_news(news, token, id)
        IN  /\ news' = r.news
            /\ resp' = r.resp
            /\ UNCHANGED <<item, home>>

\* the admin works on the news table that is on file
InitNews ==
    /\ item = NoItem
    /\ home = NoHome
    /\ news \in NewsTables
    /\ resp = Idle

NextNews == AdminCreateNews \/ AdminUpdateNews \/ AdminDeleteNews

SpecNews == InitNews /\ [][NextNews]_vars

\* ------------------------------------------------------------ C8
\* an update of a news item that is in the table got as far as its uploads
UpdateServed ==
    /\ resp.op = "admin_update_news"
    /\ "new_images" \in DOMAIN resp
    /\ resp.news_id \in DOMAIN news

\* C8: after an update of a news item the stored image list (and likewise the
\* stored file list) is the list before the update when the update uploads
\* nothing new, and the list before it followed by the new uploads in upload
\* order when it uploads at least one; so the list before is a prefix of the
\* list after.
C8_UploadsAppended ==
    UpdateServed =>
      LET images == parse_news_images(news[resp.news_id])
          files == parse_news_files(news[resp.news_id])
      IN  /\ images = IF resp.new_images = <<>> THEN resp.existing_images
                      ELSE resp.existing_images \o resp.new_images
          /\ files = IF resp.new_files = <<>> THEN resp.existing_files
                     ELSE resp.existing_files \o resp.new_files


\* ------------------------------------------------------------ C11
\* the {label, value} rows a stored text holds
RowsOfText(text) ==
    LET xs == IF text.kind = "json" /\ text.doc.t = "list" THEN text.doc.xs ELSE <<>>
    IN  [i \in DOMAIN xs |-> [label |-> xs[i].m.label.s, value |-> xs[i].m.value.s]]
\* the five lists update_home stores decode to the lists of the payload
ListsReplaced ==
    \A k \in ListKeys :
        ItemsOf(k, Loads(home[JsonColumn[k]])) = resp.update_data[k].xs

\* C11: after an update of the home record whose payload carries a list field
\* (services, strengths, hero stats, concept points, contact examples, profile
\* rows) the stored text of that field decodes to exactly the list of the
\* payload: the list stored before is replaced, not merged and not kept.
C11_ListsReplaced ==
    Saved =>
      /\ ListsReplaced
      /\ RowsOfText(home.profile_rows_json) = resp.profile_rows_list


\* ============================================ requests that overlap
\* Handlers are plain def functions, which FastAPI runs on worker threads:
\* two requests run get_or_create_home at the same time, each on its own
\* Session. Here home is the homepage table, its rows in id order, and item
\* holds, for each of two clients, the request it has in flight.
Clients == {1, 2}
HeroTitles == {<<"New">>, <<"Other">>}
\* the requests a client sends: GET /api/public/home, or PUT /api/admin/home
\* with a hero_title
RaceRequests ==
    {[kind |-> "public_home", payload |-> <<>>]}
      \cup {[kind |-> "admin_update_home", payload |-> [hero_title |-> t]] : t \in HeroTitles}
NoRequest == [pc |-> "idle"]

\* a client sends a request; the handler is about to call get_or_create_home
Begin(c) ==
    /\ item[c].pc = "idle"
    /\ item[c].served < MaxRequests
    /\ \E req \in RaceRequests :
         item' = [item EXCEPT ![c] = [pc |-> "query", served |-> @.served,
                                      kind |-> req.kind, payload |-> req.payload]]
    /\ UNCHANGED <<home, news, resp>>

\* get_or_create_home: home = db.query(HomePage).first()
Query(c) ==
    /\ item[c].pc = "query"
    /\ item' = [item EXCEPT ![c] = IF home = <<>> THEN [@ EXCEPT !.pc = "create"]
                                    ELSE [pc |-> "have", served |-> @.served,
                                          kind |-> @.kind, payload |-> @.payload,
                                          row |-> 1]]
    /\ UNCHANGED <<home, news, resp>>

\* get_or_create_home, "if not home": db.add(home); db.commit()
Create(c) ==
    /\ item[c].pc = "create"
    /\ home' = Append(home, HomeDefault)
    /\ item' = [item EXCEPT ![c] = [pc |-> "have", served |-> @.served,
                                     kind |-> @.kind, payload |-> @.payload,
                                     row |-> Len(home) + 1]]
    /\ UNCHANGED <<news, resp>>

\* the rest of the handler on the row it holds, and its response
Finish(c) ==
    /\ item[c].pc = "have"
    /\ LET r == IF item[c].kind = "public_home" THEN public_home(home[item[c].row])
                ELSE [home |-> update_home(home[item[c].row], item[c].payload),
                      resp |-> [op |-> "admin_update_home", status |-> 200,
                                payload |-> item[c].payload]]
       IN  /\ home' = [home EXCEPT ![item[c].row] = r.home]
           /\ resp' = r.resp
    /\ item' = [item EXCEPT ![c] = [pc |-> "idle", served |-> @.served + 1]]
    /\ UNCHANGED news

InitRace ==
    /\ item = [c \in Clients |-> [pc |-> "idle", served |-> 0]]
    /\ home = <<>>
    /\ news = NoNews
    /\ resp = Idle

NextRace == \E c \in Clients : Begin(c) \/ Query(c) \/ Create(c) \/ Finish(c)

SpecRace == InitRace /\ [][NextRace]_vars

\* ------------------------------------------------------------ C12
\* C12: the store never holds more than one HomeRecord, and holds exactly one
\* once a request has come back from get_or_create_home, for any sequence of
\* requests and any interleaving of two requests.
C12_SingleHomeRecord ==
    /\ Len(home) <= 1
    /\ (\E c \in Clients : item[c].pc = "have" \/ item[c].served > 0) => Len(home) = 1


\* ------------------------------------------- list columns on file
\* elements of a stored services / strengths list: two of the expected
\* shape, and one that is no object
TitledA == JDict([title |-> JStr(<<"A">>), body |-> JStr(<<"B">>), icon |-> JNull])
TitledB == JDict([title |-> JStr(<<"C">>), body |-> JStr(<<"D">>), icon |-> JStr(<<"i">>)])
ListTexts ==
    {TextNull, TextEmpty, TextSpace, TextInvalid, TextOf(JNull),
     TextOf(JDict([title |-> JStr(<<"A">>)]))}
      \cup {TextOf(JList(xs)) : xs \in SeqsUpTo({TitledA, TitledB, JStr(<<"s">>)}, MaxRows)}
DecodeHomes ==
    {[HomeDefault EXCEPT !.services_json = s, !.strengths_json = t] :
        s \in ListTexts, t \in ListTexts}

\* the home page and the admin page read the list columns that are on file
InitDecode ==
    /\ item = NoItem
    /\ home \in DecodeHomes
    /\ news = NoNews
    /\ resp = Idle

NextDecode == PublicHome \/ AdminHome

SpecDecode == InitDecode /\ [][NextDecode]_vars

\* ------------------------------------------------------ C13, C14
\* a handler has read the home record for a caller it serves
HomeRead == resp.op \in {"public_home", "admin_home"} /\ resp.status # 302
\* the list of field k the handler gives its caller
ListGiven(k) == IF resp.op = "public_home" THEN resp.body[k] ELSE resp[k]
TitledKeys == {"services", "strengths"}
\* the text is missing or is no JSON
Unreadable(text) == text.kind \in {"null", "empty", "space", "invalid"}
\* the text is a JSON list of elements of the expected shape
WellFormed(text) ==
    /\ text.kind = "json" /\ text.doc.t = "list"
    /\ \A i \in DOMAIN text.doc.xs : text.doc.xs[i].t = "dict"
\* the elements of the expected shape of a stored text, in order, as items
ShapedItems(text) ==
    LET xs == IF text.doc.t = "list"
              THEN SelectSeq(text.doc.xs, LAMBDA it : it.t = "dict") ELSE <<>>
    IN  [i \in DOMAIN xs |->
           [title |-> xs[i].m.title.s, body |-> xs[i].m.body.s,
            icon |-> IF xs[i].m.icon.t = "null" THEN None ELSE xs[i].m.icon.s]]

\* C13: reading a home record in which the text of a list field is missing
\* or is not valid JSON (the other lists being well formed) succeeds, and the
\* list of that field is empty: no error reaches the caller.
C13_DecodeNeverRaises ==
    (/\ HomeRead
     /\ \A k \in TitledKeys : Unreadable(home[JsonColumn[k]]) \/ WellFormed(home[JsonColumn[k]]))
    => /\ resp.status = 200
       /\ \A k \in TitledKeys : Unreadable(home[JsonColumn[k]]) => ListGiven(k) = <<>>

\* C14: reading a home record whose list texts are valid JSON succeeds; a
\* text that is no list gives the empty list, and a list gives its elements
\* of the expected shape, in order, the others being skipped one by one.
C14_ShapeTolerantDecode ==
    (/\ HomeRead
     /\ \A k \in TitledKeys : home[JsonColumn[k]].kind = "json")
    => /\ resp.status = 200
       /\ \A k \in TitledKeys : ListGiven(k) = ShapedItems(home[JsonColumn[k]])


\* ======================================================= upload storage
\* The environment of a deployment: github_enabled() (GITHUB_TOKEN and
\* GITHUB_REPO are set) and the Vercel flag (VERCEL is "1", or VERCEL_ENV is
\* set). Here item holds the environment and the directories under uploads/
\* that files were written to, in order.
Vercel == {"unset", "VERCEL=1", "VERCEL_ENV"}
UploadEnvs == [github_enabled : BOOLEAN, vercel : Vercel]
\* os.getenv("VERCEL") == "1" or os.getenv("VERCEL_ENV")
Managed(env) == env.vercel # "unset"
\* the url of a file: its prefix and its name (a fresh uuid4 hex and the suffix)
RemoteUrl(folder) == <<"https://cdn.jsdelivr.net/gh/", "uploads/", folder, "/<uuid>.ext">>
LocalUrl(folder) == <<"/static", "/uploads/", folder, "/<uuid>.ext">>

\* _store_upload(upload), remote_ok telling whether upload_to_github succeeds:
\* what it returns or raises and the directory it writes to
store_upload(env, remote_ok, upload) ==
    IF ~HasFile(upload) THEN [outcome |-> "return", url |-> <<>>, wrote |-> "none"]
    ELSE IF env.github_enabled
    THEN (IF remote_ok
          THEN [outcome |-> "return", url |-> RemoteUrl("news"), wrote |-> "none"]
          ELSE [outcome |-> "raise", error |-> "HTTPError", wrote |-> "none"])
    ELSE [outcome |-> "return", url |-> LocalUrl("news"), wrote |-> "news"]

\* _store_service_upload(upload, kind)
store_service_upload(env, remote_ok, upload, kind) ==
    LET folder == IF kind = "image" THEN "services/images" ELSE "services/files"
        local == [outcome |-> "return", url |-> LocalUrl(folder), wrote |-> folder]
    IN  IF env.github_enabled
        THEN (IF remote_ok
              THEN [outcome |-> "return", url |-> RemoteUrl(folder), wrote |-> "none"]
              ELSE IF Managed(env)
              THEN [outcome |-> "raise", error |-> "RuntimeError", wrote |-> "none"]
              ELSE local)
        ELSE IF Managed(env)
        THEN [outcome |-> "raise", error |-> "RuntimeError", wrote |-> "none"]
        ELSE local

\* the state after a store operation
AfterStore(op, upload, remote_ok, r) ==
    /\ item' = [item EXCEPT !.disk = IF r.wrote = "none" THEN @ ELSE Append(@, r.wrote)]
    /\ resp' = [op |-> op, upload |-> upload, remote_ok |-> remote_ok, result |-> r]
    /\ UNCHANGED <<home, news>>

\* a news handler stores one upload field
StoreUpload ==
    /\ Len(item.disk) <= MaxImages
    /\ \E upload \in Uploads, remote_ok \in BOOLEAN :
         AfterStore("store_upload", upload, remote_ok,
                    store_upload(item.env, remote_ok, upload))

\* admin_upload_service_assets stores one file with a name
StoreServiceUpload ==
    /\ Len(item.disk) <= MaxImages
    /\ \E kind \in {"image", "file"}, remote_ok \in BOOLEAN :
         AfterStore("store_service_upload", "file", remote_ok,
                    store_service_upload(item.env, remote_ok, "file", kind))

InitUpload ==
    /\ item \in [env : UploadEnvs, disk : {<<>>}]
    /\ home = NoHome
    /\ news = NoNews
    /\ resp = Idle

NextUpload == StoreUpload \/ StoreServiceUpload

SpecUpload == InitUpload /\ [][NextUpload]_vars

\* ------------------------------------------------------------ C16
\* a store operation has run on a file, without a remote store that took it
StoredWithoutRemote ==
    /\ resp.op \in {"store_upload", "store_service_upload"}
    /\ resp.upload = "file"
    /\ ~item.env.github_enabled \/ ~resp.remote_ok

\* C16: in a managed deployment no store operation writes a file to local
\* disk, and one that finds remote storage not configured or failing raises a
\* configuration error; in any other deployment such an operation stores the
\* file on local disk and returns a url under the static mount prefix.
C16_UploadFallback ==
    /\ Managed(item.env) => item.disk = <<>>
    /\ StoredWithoutRemote =>
         IF Managed(item.env)
         THEN resp.result.outcome = "raise" /\ resp.result.error = "RuntimeError"
         ELSE /\ resp.result.outcome = "return"
              /\ resp.result.wrote # "none"
              /\ Head(resp.result.url) = "/static"

\* ======================================================== the detail pages
\* news_detail: image_list of the row shown
NewsImageList(row) ==
    LET loaded == Loads(OrEmptyList(row.image_paths_json))
        parsed_images == IF loaded = Raised THEN JList(<<>>) ELSE loaded
        image_list == IF parsed_images.t = "list" THEN ParseImageList(parsed_images.xs)
                      ELSE <<>>
    IN  IF image_list = <<>> /\ row.image_path # <<>> THEN <<row.image_path>>
        ELSE image_list

\* the name the detail pages give a file that has none ("文件"), and the
\* name news_detail gives the legacy attachment ("附件")
PageFileLabel == <<"[file]">>
AttachmentLabel == <<"[attachment]">>

\* news_detail / service_detail: one element of a file list
PageFileRow(row) ==
    LET url == IF row.t = "dict" THEN GetStripped(row, "url") ELSE Strip(StrOf(row))
        name == IF row.t = "dict" THEN GetStripped(row, "name") ELSE PageFileLabel
    IN  IF url = <<>> THEN <<>> ELSE <<[name |-> StrOr(name, PageFileLabel), url |-> url]>>

RECURSIVE PageFileRows(_)
PageFileRows(rows) ==
    IF rows = <<>> THEN <<>> ELSE PageFileRow(Head(rows)) \o PageFileRows(Tail(rows))

\* service_detail: one line of a detail_files text
PageFileLine(raw_line) ==
    LET line == Strip(raw_line)
        piped == \E i \in DOMAIN line : line[i] = "|"
        file_name == IF piped THEN Strip(SplitOnce(line).file_name) ELSE PageFileLabel
        file_url == IF piped THEN Strip(SplitOnce(line).file_url) ELSE line
    IN  IF line = <<>> \/ file_url = <<>> THEN <<>>
        ELSE <<[name |-> StrOr(file_name, PageFileLabel), url |-> file_url]>>

RECURSIVE PageFileLines(_)
PageFileLines(lines) ==
    IF lines = <<>> THEN <<>> ELSE PageFileLine(Head(lines)) \o PageFileLines(Tail(lines))

\* mutant of NewsFileList: the legacy file_path column is not looked at
NewsFileListNoLegacy(row) ==
    LET loaded == Loads(OrEmptyList(row.file_paths_json))
        parsed_files == IF loaded = Raised THEN JList(<<>>) ELSE loaded
    IN  IF parsed_files.t = "list" THEN PageFileRows(parsed_files.xs) ELSE <<>>

\* news_detail: file_list of the row shown
NewsFileList(row) ==
    LET loaded == Loads(OrEmptyList(row.file_paths_json))
        parsed_files == IF loaded = Raised THEN JList(<<>>) ELSE loaded
        file_list == IF parsed_files.t = "list" THEN PageFileRows(parsed_files.xs) ELSE <<>>
    IN  IF file_list = <<>> /\ row.file_path # <<>>
        THEN <<[name |-> AttachmentLabel, url |-> row.file_path]>>
        ELSE file_list

\* service_detail: the services the page is taken from, the stored list or,
\* when that is no list, empty or no JSON, the three built-in services
ServicesOf(h) ==
    LET loaded == Loads(OrEmptyList(h.services_json))
        services == IF loaded = Raised THEN JList(<<>>) ELSE loaded
        builtin(title, body) ==
            JDict([title |-> JStr(title), body |-> JStr(body), detail_body |-> JStr(<<>>),
                   detail_images |-> JList(<<>>), detail_files |-> JList(<<>>)])
    IN  IF services.t # "list" \/ services.xs = <<>>
        THEN <<builtin(<<"Import">>, <<"import body">>),
               builtin(<<"Export">>, <<"export body">>),
               builtin(<<"Consulting/OEM">>, <<"consulting body">>)>>
        ELSE services.xs

\* mutant of ServiceMissing: the index equal to the length passes
ServiceMissingAbove(services, service_index) ==
    service_index < 0 \/ service_index > Len(services)

\* service_detail: "if service_index < 0 or service_index >= len(services)"
ServiceMissing(services, service_index) ==
    service_index < 0 \/ service_index >= Len(services)

\* not_found_handler(request, exc): every 404 leaves with the same body,
\* whatever detail the HTTPException was raised with
not_found_handler(request, detail) ==
    [op |-> request.op, path_arg |-> request.path_arg, status |-> 404,
     content |-> [detail |-> "Not found"]]

\* GET /news/{news_id}
NewsPage ==
    \E news_id \in NewsIds :
        /\ resp' =
             IF news_id \notin DOMAIN news \/ ~news[news_id].is_published
             THEN not_found_handler([op |-> "news_detail", path_arg |-> news_id],
                                    "News not found")
             ELSE LET row == news[news_id]
                      image_list == NewsImageList(row)
                      p == build_news_content_blocks(row.body, image_list)
                  IN  [op |-> "news_detail", path_arg |-> news_id, status |-> 200,
                       template |-> "news_detail.html",
                       news_images |-> image_list,
                       news_files |-> NewsFileList(row),
                       news_content_blocks |-> NewsFallback(p.compact_blocks, row.body),
                       news_images_remaining |-> p.remaining_images]
        /\ UNCHANGED <<item, home, news>>

\* the indexes asked for: negative, inside and past every list
ServiceIndexes == -1 .. MaxRows + 1

\* GET /services/{service_index}; an index past the list that the range
\* check lets through ends in IndexError, a 500
ServicePage ==
    \E service_index \in ServiceIndexes :
        LET h == get_or_create_home(home)
            services == ServicesOf(h)
            request == [op |-> "service_detail", path_arg |-> service_index]
        IN  /\ home' = h
            /\ resp' =
                 IF ServiceMissing(services, service_index)
                 THEN not_found_handler(request, "Service not found")
                 ELSE IF service_index + 1 \notin DOMAIN services
                 THEN [op |-> "service_detail", path_arg |-> service_index,
                       status |-> 500,
                       content |-> [detail |-> "Internal server error"]]
                 ELSE IF services[service_index + 1].t # "dict"
                 THEN not_found_handler(request, "Service not found")
                 ELSE LET raw == services[service_index + 1]
                          detail_images == ParseDetailImages(raw)
                          detail_files_raw == IF Falsy(Get(raw, "detail_files"))
                                              THEN JList(<<>>)
                                              ELSE Get(raw, "detail_files")
                          detail_files ==
                              IF detail_files_raw.t = "str"
                              THEN PageFileLines(SplitLines(detail_files_raw.s))
                              ELSE IF detail_files_raw.t = "list"
                              THEN PageFileRows(detail_files_raw.xs)
                              ELSE <<>>
                          p == build_service_content_blocks(GetOrEmpty(raw, "detail_body"),
                                                            detail_images)
                      IN  [op |-> "service_detail", path_arg |-> service_index,
                           status |-> 200, template |-> "service_detail.html",
                           title |-> GetOrEmpty(raw, "title"),
                           body |-> GetOrEmpty(raw, "body"),
                           detail_body |-> GetOrEmpty(raw, "detail_body"),
                           detail_images |-> detail_images,
                           detail_images_remaining |-> p.remaining_images,
                           detail_files |-> detail_files,
                           content_blocks |->
                               ServiceFallback(p.compact_blocks, GetOrEmpty(raw, "body"))]
            /\ UNCHANGED <<item, news>>

\* ----------------------------------------- rows and homes the pages read
\* news rows on file: published or not; the image columns vary with the file
\* columns empty, and the file columns with the image columns empty
PageFileTexts == FileTexts \cup {TextNull, TextOf(JList(<<JStr(<<"g.pdf", " ">>)>>))}
PageRows ==
    [title : {<<"t">>}, body : {<<"x", "[img:1]">>}, is_published : BOOLEAN,
     image_path : {<<>>, <<"old.png">>}, file_path : {<<>>},
     image_paths_json : ImageTexts, file_paths_json : {TextNull}]
      \cup [title : {<<"t">>}, body : {<<"x", "[img:1]">>}, is_published : BOOLEAN,
            image_path : {<<>>}, file_path : {<<>>, <<"old.pdf">>},
            image_paths_json : {TextNull}, file_paths_json : PageFileTexts]
PageTables == {NoNews} \cup [{1} -> PageRows]

\* services lists on file: missing, unreadable, no list, and lists of up to
\* MaxRows elements, an element being an object or not
PageHomes ==
    {NoHome} \cup
    {[HomeDefault EXCEPT !.services_json = s] :
        s \in ListTexts \cup {TextOf(JList(xs)) :
                                xs \in SeqsUpTo({SvcDetailed, JStr(<<"s">>)}, MaxRows)}}

InitPages ==
    /\ item = NoItem
    /\ \/ news \in PageTables /\ home = NoHome
       \/ news = NoNews /\ home \in PageHomes
    /\ resp = Idle

NextPages == NewsPage \/ ServicePage \/ AdminUpdateNews

SpecPages == InitPages /\ [][NextPages]_vars

\* ------------------------------------------------------------ C17
\* the request ended as a 404 whose body is the fixed text, and no template
\* was rendered
NotFoundOutcome ==
    /\ resp.status = 404
    /\ resp.content = [detail |-> "Not found"]
    /\ "template" \notin DOMAIN resp

\* the news row asked for is missing or not published
NewsAbsent ==
    /\ resp.op = "news_detail"
    /\ resp.path_arg \notin DOMAIN news \/ ~news[resp.path_arg].is_published

\* the number of elements of the services list on file; none when the text
\* is missing, no JSON or no list
StoredCount == IF home.services_json.kind = "json" /\ home.services_json.doc.t = "list" THEN Len(home.services_json.doc.xs) ELSE 0

\* the number of services a detail page can be asked for: those on file, or
\* the three built-in ones when there is none on file
ShownCount == IF StoredCount = 0 THEN 3 ELSE StoredCount

\* C17 as stated, the number of services being that of the list on file: a
\* news id that is missing or unpublished, and a service index that is
\* negative or not below the number of services on file, end in a 404 with
\* the fixed body and render no page. TLC refutes it at index 0 of an empty
\* list, which renders the first built-in service.
C17_NotFoundOnFile ==
    /\ NewsAbsent => NotFoundOutcome
    /\ (/\ resp.op = "service_detail"
        /\ resp.path_arg < 0 \/ resp.path_arg >= StoredCount) => NotFoundOutcome

\* C17, amended: a news id that is missing or unpublished, and a service
\* index that is negative or not below the number of services the page is
\* taken from (those on file, or the three built-in services when none is on
\* file), end in a 404 whose body is {"detail": "Not found"} and render no
\* page.
C17_NotFound ==
    /\ NewsAbsent => NotFoundOutcome
    /\ (/\ resp.op = "service_detail"
        /\ resp.path_arg < 0 \/ resp.path_arg >= ShownCount) => NotFoundOutcome

\* with no service on file, the index just past the built-in services was
\* asked for and ended as the 404
C17_Witness ==
    /\ resp.op = "service_detail"
    /\ StoredCount = 0
    /\ resp.path_arg = ShownCount
    /\ NotFoundOutcome

\* ------------------------------------------------------------ C18
\* C18: an image tag whose index is not a number ([img:abc]) is consumed: it
\* gives no image block, raises nothing, and its characters are in no text
\* block the parser emits.
C18_MalformedTagConsumed ==
    ParserRan =>
        LET bl == resp.parsed.blocks
        IN  \A i \in DOMAIN bl : bl[i].type = "text" =>
                \A t \in DOMAIN bl[i].value : bl[i].value[t] # "[img:abc]"

\* ------------------------------------------------------------ C19
\* the i-th element of a form array trimmed, the empty string past its end
PadTrim(arr, i) == IF i <= Len(arr) THEN Trimmed(arr[i]) ELSE <<>>

\* the records of the indexes 1..max(lengths) of the form arrays named by
\* fields (record field -> form key), without those whose fields are all empty
ExpectedRecords(fields) ==
    LET n == Max({Len(item[fields[f]]) : f \in DOMAIN fields} \cup {0})
        all == [i \in 1..n |-> [f \in DOMAIN fields |-> PadTrim(item[fields[f]], i)]]
    IN  SelectSeq(all, LAMBDA r : \E f \in DOMAIN fields : r[f] # <<>>)

\* C19: for form arrays of possibly unequal length the Field Normalizer
\* output is the sequence, in increasing index up to the longest array, of
\* the records built from the trimmed i-th elements (the empty string past
\* an array's end) without the all-empty records; a shorter array does not
\* shorten the output. Stated for _build_items (strengths; an empty icon is
\* held as None) and _build_profile_rows.
C19_PaddedIndexOrder ==
    Saved =>
        LET strengths == ExpectedRecords([title |-> "strengths_title",
                                          body |-> "strengths_body",
                                          icon |-> "strengths_icon"])
            rows == ExpectedRecords([label |-> "profile_row_label",
                                     value |-> "profile_row_value"])
        IN  /\ Len(resp.strengths_list) = Len(strengths)
            /\ \A i \in DOMAIN strengths :
                  /\ resp.strengths_list[i].title = strengths[i].title
                  /\ resp.strengths_list[i].body = strengths[i].body
                  /\ StrOr(resp.strengths_list[i].icon, <<>>) = strengths[i].icon
            /\ resp.profile_rows_list = rows

\* saved: strengths arrays of unequal length where the titles are the
\* shortest, the first index gives an all-empty record and the output still
\* has a record for the last index of the longest array
C19_Witness ==
    /\ Saved
    /\ Len(item.strengths_title) < Len(item.strengths_body)
    /\ Len(item.strengths_body) = MaxRows
    /\ PadTrim(item.strengths_body, 1) = <<>>
    /\ PadTrim(item.strengths_title, 1) = <<>>
    /\ PadTrim(item.strengths_icon, 1) = <<>>
    /\ Len(resp.strengths_list) = MaxRows - 1
    /\ resp.strengths_list[MaxRows - 1].body = PadTrim(item.strengths_body, MaxRows)

\* ------------------------------------------------------------ C20
\* the url an entry of a stored list gives: the entry itself, or its "url"
\* (for an image also its "src"), trimmed
EntryUrl(e, keys) ==
    IF e.t = "str" THEN Trimmed(e.s)
    ELSE IF e.t = "dict" /\ \E k \in keys : k \in DOMAIN e.m /\ e.m[k].t = "str" /\ e.m[k].s # <<>>
    THEN LET k == IF "url" \in DOMAIN e.m /\ e.m["url"].t = "str" /\ e.m["url"].s # <<>>
                  THEN "url" ELSE "src"
         IN  Trimmed(e.m[k].s)
    ELSE <<>>

\* the non-empty urls of the entries of a stored list text, in order; none
\* when the text is missing, no JSON or no list
DecodedUrls(text, keys) ==
    IF text.kind = "json" /\ text.doc.t = "list"
    THEN SelectSeq([i \in DOMAIN text.doc.xs |-> EntryUrl(text.doc.xs[i], keys)],
                   LAMBDA u : u # <<>>)
    ELSE <<>>

\* the decoded list when it has an entry, else the legacy column when it is
\* not empty, else nothing
ListOrLegacy(decoded, legacy) ==
    IF decoded # <<>> THEN decoded ELSE IF legacy # <<>> THEN <<legacy>> ELSE <<>>

UrlsOf(files) == [i \in DOMAIN files |-> files[i].url]

\* the lists a request took from the row are those the claim states
AssetsAsStated(row, images, files) ==
    /\ images = ListOrLegacy(DecodedUrls(row.image_paths_json, {"url", "src"}),
                             row.image_path)
    /\ UrlsOf(files) = ListOrLegacy(DecodedUrls(row.file_paths_json, {"url"}),
                                    row.file_path)

\* C20: the image list (resp. file list) of a news item, as the detail page
\* shows it and as the update merges into it, is the decoded JSON list when
\* that has a non-empty entry, else the one-element list of the legacy
\* image_path (resp. file_path) when that is not empty, else the empty list.
\* A file is identified by its url.
C20_LegacyFallback ==
    /\ (resp.op = "news_detail" /\ resp.status = 200) =>
          AssetsAsStated(news[resp.path_arg], resp.news_images, resp.news_files)
    /\ (/\ resp.op = "admin_update_news"
        /\ "existing_images" \in DOMAIN resp
        /\ resp.news_id \in DOMAIN news) =>
          AssetsAsStated(news[resp.news_id], resp.existing_images, resp.existing_files)

\* the detail page of a row whose file list on file has no entry and whose
\* legacy file_path is set shows that one file
C20_Witness ==
    /\ resp.op = "news_detail"
    /\ resp.status = 200
    /\ DecodedUrls(news[resp.path_arg].file_paths_json, {"url"}) = <<>>
    /\ news[resp.path_arg].file_path # <<>>
    /\ UrlsOf(resp.news_files) = <<news[resp.path_arg].file_path>>

\* =========================================== the detail_files normalizers
\* the three places that turn a detail_files text into {name, url} files
FilePlaces == {"_build_services", "_parse_services", "service_detail"}

\* one place normalizes the text at hand
NormalizeDetailFiles ==
    \E place \in FilePlaces :
        /\ resp' = [op |-> "detail_files", place |-> place,
                    detail_files |->
                        CASE place = "_build_services" ->
                                 BuildFileLines(SplitLines(item.detail_files_raw))
                          [] place = "_parse_services" ->
                                 ParseFileLines(SplitLines(item.detail_files_raw))
                          [] place = "service_detail" ->
                                 PageFileLines(SplitLines(item.detail_files_raw))]
        /\ UNCHANGED <<item, home, news>>

\* detail_files texts: names, urls with a path, "|", blanks and line breaks
FileAlphabet == {"n", "|", "d", "/", " ", "\n"}
FileInputs == [detail_files_raw : SeqsUpTo(FileAlphabet, MaxLen)]

InitFiles ==
    /\ item \in FileInputs
    /\ home = NoHome
    /\ news = NoNews
    /\ resp = Idle

NextFiles == NormalizeDetailFiles

SpecFiles == InitFiles /\ [][NextFiles]_vars

\* ------------------------------------------------------------ C21
\* the part of a path after its last "/", the trailing "/" dropped first
Basename(url) ==
    LET cut == {k \in DOMAIN url : \A j \in k..Len(url) : url[j] = "/"}
        path == IF cut = {} THEN url ELSE SubSeq(url, 1, Min(cut) - 1)
        slashes == {k \in DOMAIN path : path[k] = "/"}
    IN  IF slashes = {} THEN path ELSE SubSeq(path, Max(slashes) + 1, Len(path))

\* the file a line stands for as the claim states it; <<>> for no file
StatedFile(raw_line) ==
    LET line == Trimmed(raw_line)
        bars == {k \in DOMAIN line : line[k] = "|"}
        name == IF bars = {} THEN Basename(line) ELSE Trimmed(SubSeq(line, 1, Min(bars) - 1))
        url == IF bars = {} THEN line ELSE Trimmed(SubSeq(line, Min(bars) + 1, Len(line)))
    IN  IF url = <<>> THEN <<>>
        ELSE <<[name |-> IF name = <<>> THEN <<"[file]">> ELSE name, url |-> url]>>

RECURSIVE StatedFiles(_)
StatedFiles(lines) ==
    IF lines = <<>> THEN <<>> ELSE StatedFile(Head(lines)) \o StatedFiles(Tail(lines))

\* C21: every place that normalizes a detail_files text gives the same
\* files: a line with "|" is split at the first "|" into name and url, a
\* bare url is named by the basename of its path or by the placeholder when
\* that is empty, and a line whose url is empty gives no file.
C21_SameNormalization ==
    resp.op = "detail_files" =>
        resp.detail_files = StatedFiles(SplitLines(item.detail_files_raw))

\* ------------------------------------------------------------ C22
\* C22 as stated: in every store state a call of public_home leaves the
\* store as it is, creating no record and changing no stored field. TLC
\* refutes it on the empty table, where the call inserts the default row.
C22_ReadOnly ==
    [][resp'.op = "public_home" => home' = home /\ news' = news]_vars

\* C22, amended: a call of public_home changes no stored field of an
\* existing home record and touches no news item; on a table without a home
\* record it inserts the record with the built-in defaults, and nothing else.
C22_ReadOnlyOnceCreated ==
    [][resp'.op = "public_home" =>
          /\ news' = news
          /\ home' = IF home = NoHome THEN HomeDefault ELSE home]_vars

\* public_home has answered from a record an update had changed before
C22_Witness ==
    /\ resp.op = "public_home"
    /\ resp.status = 200
    /\ home # NoHome
    /\ home # HomeDefault

\* ------------------------------------------------------------ C23
\* a block that holds something: a trimmed non-empty value, at least one
\* item and only trimmed non-empty items, at least one image in a row
BlockHoldsSomething(b) ==
    /\ b.type \in {"text", "heading", "note"} =>
          b.value # <<>> /\ Trimmed(b.value) = b.value
    /\ b.type = "list" =>
          /\ b.list_items # <<>>
          /\ \A k \in DOMAIN b.list_items :
                b.list_items[k] # <<>> /\ Trimmed(b.list_items[k]) = b.list_items[k]
    /\ b.type = "image_row" => b.row_images # <<>>

\* the inner text of a block tag match has something to show: for a list tag
\* the separators do not count
InnerShows(m) ==
    \E k \in DOMAIN m.inner :
        m.inner[k] \notin {" ", "\n", "\r\n"} \cup (IF m.kind \in {"ul", "ol"} THEN {"|"} ELSE {})

\* the number of elements of a sequence that satisfy a test
CountOf(seq, Test(_)) == Cardinality({k \in DOMAIN seq : Test(seq[k])})

\* C23: the parser emits no empty block: text, heading and note blocks hold
\* a non-empty trimmed value, a list block holds at least one item and only
\* non-empty trimmed items, an image_row holds at least one image; a [h2] or
\* [note] tag with blank inner text and a [ul] or [ol] tag without a
\* non-blank item give no block.
C23_NoEmptyBlock ==
    ParserRan =>
        LET text == ReplaceCRLF(resp.body)
            ms == FindIter(text, 0)
            bl == resp.parsed.compact_blocks
            Shown(kinds) == CountOf(ms, LAMBDA m : m.kind \in kinds /\ InnerShows(m))
        IN  /\ \A i \in DOMAIN bl : BlockHoldsSomething(bl[i])
            /\ CountOf(bl, LAMBDA b : b.type = "heading") = Shown({"h2"})
            /\ CountOf(bl, LAMBDA b : b.type = "note") = Shown({"note"})
            /\ CountOf(bl, LAMBDA b : b.type = "list") = Shown({"ul", "ol"})

\* a body with a text and a list tag that holds separators only: the text
\* gives the only block
C23_Witness ==
    /\ ParserRan
    /\ LET ms == FindIter(ReplaceCRLF(resp.body), 0)
       IN  \E k \in DOMAIN ms :
              ms[k].kind = "ul" /\ ms[k].inner # <<>> /\ ~InnerShows(ms[k])
    /\ Len(resp.parsed.compact_blocks) = 1
    /\ resp.parsed.compact_blocks[1].type = "text"

\* ------------------------------------------------------------ C24
\* the first block tag of a text: the leftmost opening tag that has a
\* closing tag of its kind after it, and the first such closing tag
\* (positions from 1; <<0, 0>> when there is none)
FirstSpan(text) ==
    LET closes(q) ==
            {r \in (q + 1)..Len(text) :
                \E k \in BlockKinds : text[q] = OpenTag[k] /\ text[r] = CloseTag[k]}
        opens == {q \in DOMAIN text : closes(q) # {}}
    IN  IF opens = {} THEN <<0, 0>> ELSE <<Min(opens), Min(closes(Min(opens)))>>

\* the positions of the image tags inside the first block tag, and of the
\* other image tags
TagsInside(text) ==
    {p \in (FirstSpan(text)[1] + 1)..(FirstSpan(text)[2] - 1) : text[p] \in ImgTags}
TagsOutside(text) == {p \in DOMAIN text : text[p] \in ImgTags} \ TagsInside(text)

\* the characters of the token at p are in a heading, a note or a list item
HeldByBlock(bl, tok) ==
    \E i \in DOMAIN bl :
        \/ /\ bl[i].type \in {"heading", "note"}
           /\ \E k \in DOMAIN bl[i].value : bl[i].value[k] = tok
        \/ /\ bl[i].type = "list"
           /\ \E j \in DOMAIN bl[i].list_items :
                 \E k \in DOMAIN bl[i].list_items[j] :
                     bl[i].list_items[j][k] = PipeParts(tok)[1]

\* C24: tag matches do not nest: an image tag inside the inner text of a
\* matched block tag is part of that block's text, gives no image block and
\* marks no index used, so an image only such tags name stays among the
\* leftover images. Stated for the first block tag of the body.
C24_NoNestedMatch ==
    ParserRan =>
        LET text == ReplaceCRLF(resp.body)
            bl == resp.parsed.blocks
            onlyInside == {TagNumber(text[p]) : p \in TagsInside(text)}
                            \ {TagNumber(text[p]) : p \in TagsOutside(text)}
        IN  /\ Cardinality({i \in DOMAIN bl : bl[i].type = "image"})
                 <= Cardinality(TagsOutside(text))
            /\ \A p \in TagsInside(text) : HeldByBlock(bl, text[p])
            /\ \A n \in onlyInside :
                  /\ n - 1 \notin resp.parsed.used_indexes
                  /\ n \in 1..Len(resp.images) =>
                        \E j \in DOMAIN resp.images_remaining :
                            resp.images_remaining[j] = resp.images[n]

\* a list tag holds the only tag of image 1, which is left over
C24_Witness ==
    /\ ParserRan
    /\ resp.images # <<>>
    /\ TagsInside(ReplaceCRLF(resp.body)) # {}
    /\ TagsOutside(ReplaceCRLF(resp.body)) = {}
    /\ resp.images_remaining = resp.images
    /\ \E i \in DOMAIN resp.parsed.blocks : resp.parsed.blocks[i].type = "list"

\* ===================================================== admin requests
\* the forms and JSON bodies of the requests; the last body does not
\* validate against HomeUpdate (services is no list)
SessionForms == ScriptForms \cup {FormBase}
SessionBodies ==
    {JDict([hero_title |-> JStr(<<"New">>)]), JDict([services |-> JList(<<SvcPlain>>)]),
     JDict([services |-> JStr(<<"x">>)])}
\* news forms without an upload and with one
SessionNewsForms == {NewsFormBase, [NewsFormBase EXCEPT !.attachment = "file"]}

\* one request to an admin operation that writes; item holds the session
\* cookie the request carried
AdminRequest ==
    \E token \in Tokens :
        /\ item' = [cookie |-> token]
        /\ \/ \E form \in SessionForms :
                LET r == IF is_logged_in(token) THEN admin_save(home, form)
                         ELSE [home |-> home, resp |-> LoginRedirect("admin_save")]
                IN  home' = r.home /\ resp' = r.resp /\ news' = news
           \/ \E body \in SessionBodies :
                LET r == admin_update_home(home, token, body)
                IN  home' = r.home /\ resp' = r.resp /\ news' = news
           \/ \E req \in SessionNewsForms :
                LET r == admin_create_news(news, [req EXCEPT !.token = token])
                IN  news' = r.news /\ resp' = r.resp /\ home' = home
           \/ \E req \in SessionNewsForms, id \in NewsIds :
                LET r == admin_update_news(news, [req EXCEPT !.token = token, !.news_id = id])
                IN  news' = r.news /\ resp' = r.resp /\ home' = home
           \/ \E id \in NewsIds :
                LET r == admin_delete_news(news, token, id)
                IN  news' = r.news /\ resp' = r.resp /\ home' = home

InitSession ==
    /\ item = [cookie |-> "none"]
    /\ home = NoHome
    /\ news \in NewsTables
    /\ resp = Idle

NextSession == AdminRequest

SpecSession == InitSession /\ [][NextSession]_vars

\* ------------------------------------------------------------ C25
\* the cookie is one that auth.py signed for the admin user
ValidSession(token) == token = "signed:admin"

\* the answer sends the client to the login page, or is a 401
Refused(r) ==
    \/ r.status = 302 /\ r.location = <<"/admin/login">>
    \/ r.status = 401

\* C25 as stated: a request to an admin operation that carries no session
\* token or an invalid one leaves the HomeRecord and the news list as they
\* were and ends in a redirect to login or an unauthorized response. TLC
\* refutes the last part: a home update whose body does not validate ends
\* as a 422 before the session is looked at.
C25_RefusedWithoutSession ==
    [][~ValidSession(item'.cookie) =>
          home' = home /\ news' = news /\ Refused(resp')]_vars

\* C25, amended: such a request leaves the HomeRecord and the news list as
\* they were and ends in a redirect to login, an unauthorized response or,
\* for a body the framework rejects before the handler runs, a 422.
C25_NoChangeWithoutSession ==
    [][~ValidSession(item'.cookie) =>
          /\ home' = home
          /\ news' = news
          /\ Refused(resp') \/ resp'.status = 422]_vars

\* a delete without a valid session was refused with the news list in place
C25_Witness ==
    /\ ~ValidSession(item.cookie)
    /\ resp.op = "admin_delete_news"
    /\ Refused(resp)
    /\ news # NoNews
    /\ home # NoHome

\* ================================================== the public news lists
\* the rows of ids created at the time t, as a list (two rows of one time
\* come in the order the database picks)
RECURSIVE RowsAt(_, _, _)
RowsAt(table, ids, t) ==
    LET at == {i \in ids : table[i].created_at = t}
    IN  IF at = {} THEN <<>>
        ELSE LET one == CHOOSE i \in at : TRUE
             IN  <<one>> \o RowsAt(table, at \ {one}, t)

\* "order_by(News.created_at.desc())" over the rows of ids, from the time t
\* down
RECURSIVE NewestFirst(_, _, _)
NewestFirst(table, ids, t) ==
    IF t < 1 \/ ids = {} THEN <<>>
    ELSE RowsAt(table, ids, t) \o NewestFirst(table, ids, t - 1)

\* the latest created_at of a table
LatestTime(table) ==
    IF DOMAIN table = {} THEN 0 ELSE Max({table[i].created_at : i \in DOMAIN table})

\* mutant of list_published_news: the rows are not filtered
list_every_news(table) ==
    NewestFirst(table, DOMAIN table, LatestTime(table))

\* crud.list_published_news: the ids of the rows with is_published, by
\* created_at descending
list_published_news(table) ==
    NewestFirst(table, {i \in DOMAIN table : table[i].is_published}, LatestTime(table))

\* the limit query parameter of GET /api/public/news
Limits == {-1, 0, 1, 2, 200}

\* "NewsPublic(id=item.id, title=item.title, url=f"/news/{item.id}")" for
\* each of the rows ids
NewsPublicOf(table, ids) ==
    [k \in DOMAIN ids |->
       [id |-> ids[k], title |-> table[ids[k]].title, url |-> <<"/news/", ids[k]>>]]

\* "list_published_news(db)[:safe_limit]"
FirstOf(ids, safe_limit) == SubSeq(ids, 1, Min({safe_limit, Len(ids)}))

\* GET /api/public/news
PublicNews ==
    \E limit \in Limits :
        LET safe_limit == Max({1, Min({IF limit = 0 THEN 8 ELSE limit, ApiLimit})})
        IN  /\ resp' = [op |-> "public_news", status |-> 200, limit |-> limit,
                        items |-> NewsPublicOf(news, FirstOf(list_published_news(news),
                                                             safe_limit))]
            /\ UNCHANGED <<item, home, news>>

\* the sitemap's urls of a list of ids or indexes under a path
UrlsUnder(path, ids) == [k \in DOMAIN ids |-> <<path, ids[k]>>]

\* "for index, _service in enumerate(services)" when services is a list
ServiceIndexesOf(services) ==
    IF services # Raised /\ services.t = "list"
    THEN [k \in DOMAIN services.xs |-> k - 1] ELSE <<>>

\* GET /sitemap.xml: the urls after the two fixed ones, one per published
\* news item and one per stored service
SitemapXml ==
    /\ home' = get_or_create_home(home)
    /\ resp' = [op |-> "sitemap_xml", status |-> 200,
                news_urls |-> UrlsUnder("/news/", list_published_news(news)),
                service_urls |->
                    UrlsUnder("/services/",
                              ServiceIndexesOf(Loads(OrEmptyList(home'.services_json))))]
    /\ UNCHANGED <<item, news>>

\* ------------------------------------------------ the tables they read
\* a row created at the time t, published or a draft
DatedRow(t, pub) ==
    [title |-> <<"t">>, body |-> <<"x">>, is_published |-> pub, created_at |-> t,
     image_path |-> <<>>, file_path |-> <<>>,
     image_paths_json |-> TextNull, file_paths_json |-> TextNull]

\* the ids are given in the order of creation: a later row has a larger id
\* and a later created_at. Tables of up to MaxRows + 1 rows, any of them a
\* draft, and one table with more published rows than the API ever lists
DatedTables ==
    UNION {[S -> {TRUE, FALSE}] : S \in SUBSET (1..(MaxRows + 1))}
DatedNews ==
    {[i \in DOMAIN pubs |-> DatedRow(i, pubs[i])] : pubs \in DatedTables}
      \cup {[i \in 1..(ApiLimit + 1) |-> DatedRow(i, TRUE)]}

InitPublic ==
    /\ item = NoItem
    /\ home = NoHome
    /\ news \in DatedNews
    /\ resp = Idle

\* the admin's news requests between the public reads
CreateNewsRequest ==
    \E req \in SessionNewsForms, token \in Tokens :
        LET r == admin_create_news(news, [req EXCEPT !.token = token])
        IN  /\ news' = r.news
            /\ resp' = r.resp
            /\ UNCHANGED <<item, home>>

UpdateNewsRequest ==
    \E req \in SessionNewsForms, token \in Tokens, id \in NewsIds, pub \in BOOLEAN :
        LET r == admin_update_news(news, [req EXCEPT !.token = token, !.news_id = id,
                                                    !.is_published = pub])
        IN  /\ news' = r.news
            /\ resp' = r.resp
            /\ UNCHANGED <<item, home>>

NextPublic ==
    PublicNews \/ SitemapXml \/ NewsPage \/ CreateNewsRequest \/ UpdateNewsRequest
      \/ AdminDeleteNews

SpecPublic == InitPublic /\ [][NextPublic]_vars

\* ------------------------------------------------------------ C26
\* the ids of the rows that exist and are published, newest first, stated
\* by position: the k-th is the one with k - 1 newer published rows
PublishedIds == {i \in DOMAIN news : news[i].is_published}

\* ids lists the first count published rows, newest first: each listed row
\* is published and newer than the next, and no row left out is newer than
\* a listed one
ListsNewest(ids, count) ==
    /\ Len(ids) = Min({count, Cardinality(PublishedIds)})
    /\ \A k \in DOMAIN ids : ids[k] \in PublishedIds
    /\ \A k \in 1..(Len(ids) - 1) : news[ids[k]].created_at > news[ids[k + 1]].created_at
    /\ Len(ids) > 0 =>
          \A i \in PublishedIds \ {ids[k] : k \in DOMAIN ids} :
              news[i].created_at < news[ids[Len(ids)]].created_at

\* the public surfaces show the published rows: the API the first cap of
\* them, the sitemap all of them, the detail page one of them or a 404
ExposesPublished(cap) ==
    /\ resp.op = "public_news" =>
          ListsNewest([k \in DOMAIN resp.items |-> resp.items[k].id], cap)
    /\ resp.op = "sitemap_xml" =>
          /\ ListsNewest([k \in DOMAIN resp.news_urls |-> resp.news_urls[k][2]],
                         Cardinality(PublishedIds))
          /\ \A k \in DOMAIN resp.news_urls : resp.news_urls[k][1] = "/news/"
    /\ resp.op = "news_detail" =>
          (resp.status = 200 <=> resp.path_arg \in PublishedIds)

\* C26 as stated: the public news API lists the published rows that exist,
\* newest first, at most max(1, min(limit, 100)) of them; the sitemap lists
\* all of them; the detail page renders only for one of them. TLC refutes
\* the count for limit = 0, which the API takes as 8.
C26_PublishedOnly ==
    ExposesPublished(IF resp.op = "public_news"
                     THEN Max({1, Min({resp.limit, 100})}) ELSE 0)

\* C26, amended: the same with the API listing at most
\* max(1, min(limit, 100)) of them for a limit other than 0, and at most 8
\* for the limit 0.
C26_PublishedOnlyDefaultLimit ==
    ExposesPublished(IF resp.op # "public_news" THEN 0
                     ELSE IF resp.limit = 0 THEN 8
                     ELSE Max({1, Min({resp.limit, 100})}))

\* from a table of two published rows and a draft, the API asked with
\* limit 0 lists the two published rows
C26_Witness ==
    /\ resp.op = "public_news"
    /\ resp.limit = 0
    /\ Len(resp.items) = 2
    /\ Cardinality(DOMAIN news) = 3

\* ------------------------------------------------------------ C27
\* what a parser returns: "return compact_blocks, remaining_images"
Returned(p) == <<p.compact_blocks, p.remaining_images>>

\* C27: the news parser and the service parser are equivalent: on the body
\* text and the image list of every page shown, _build_news_content_blocks
\* and _build_service_content_blocks return the same block list and the same
\* leftover images, and the page was built from that result.
C27_ParsersEquivalent ==
    ParserRan =>
        /\ Returned(build_news_content_blocks(resp.body, resp.images))
             = Returned(build_service_content_blocks(resp.body, resp.images))
        /\ Returned(resp.parsed)
             = Returned(IF resp.op = "news_detail"
                        THEN build_service_content_blocks(resp.body, resp.images)
                        ELSE build_news_content_blocks(resp.body, resp.images))

\* a service page whose result has text, a row of side images and a
\* leftover image: the news parser gives the same for its body
C27_Witness ==
    /\ resp.op = "service_detail"
    /\ \E k \in DOMAIN resp.parsed.compact_blocks :
           resp.parsed.compact_blocks[k].type = "image_row"
    /\ \E k \in DOMAIN resp.parsed.compact_blocks :
           resp.parsed.compact_blocks[k].type = "text"
    /\ resp.parsed.remaining_images # <<>>
    /\ Returned(resp.parsed)
         = Returned(build_news_content_blocks(resp.body, resp.images))

\* ------------------------------------------------------------ C28
\* the blocks of a compacted list with every image_row replaced by its images
RECURSIVE Flattened(_)
Flattened(blocks) ==
    IF blocks = <<>> THEN <<>>
    ELSE (IF Head(blocks).type = "image_row" THEN Head(blocks).row_images
          ELSE <<Head(blocks)>>) \o Flattened(Tail(blocks))

SideImage(b) == b.type = "image" /\ b.layout \in {"left", "right"}

\* C28: in every block list the parser returns, no image block with layout
\* left or right stands outside an image_row, no two image_row blocks are
\* adjacent, every image inside an image_row has layout left or right, and
\* flattening the image_row blocks gives back the block list before
\* compaction: the same blocks in the same order and number.
C28_RowsWellFormed ==
    ParserRan =>
        LET Cm == resp.parsed.compact_blocks
        IN  /\ \A k \in DOMAIN Cm : ~SideImage(Cm[k])
            /\ \A k \in 1..(Len(Cm) - 1) :
                   ~(Cm[k].type = "image_row" /\ Cm[k + 1].type = "image_row")
            /\ \A k \in DOMAIN Cm : Cm[k].type = "image_row" =>
                   /\ Cm[k].row_images # <<>>
                   /\ \A n \in DOMAIN Cm[k].row_images : SideImage(Cm[k].row_images[n])
            /\ Flattened(Cm) = resp.parsed.blocks
            /\ Len(Flattened(Cm)) = Len(resp.parsed.blocks)

\* a service page with two rows of side images and a full image between them
C28_Witness ==
    /\ resp.op = "service_detail"
    /\ Len(resp.parsed.compact_blocks) = 3
    /\ resp.parsed.compact_blocks[1].type = "image_row"
    /\ Len(resp.parsed.compact_blocks[1].row_images) = 2
    /\ resp.parsed.compact_blocks[2].type = "image"
    /\ resp.parsed.compact_blocks[3].type = "image_row"
    /\ Len(resp.parsed.blocks) = 4

\* ------------------------------------------------------------ C29
\* a create of a titled news item by the admin got as far as its uploads
CreateServed ==
    /\ resp.op = "admin_create_news"
    /\ "uploaded_images" \in DOMAIN resp

Reversed(seq) == [k \in DOMAIN seq |-> seq[Len(seq) + 1 - k]]
PageOf(ordered, page, page_size) ==
    SubSeq(ordered, (page - 1) * page_size + 1, Min({page * page_size, Len(ordered)}))
list_news_page(table, ids, page, page_size, sort) ==
    [items |-> PageOf(IF sort = "oldest"
                      THEN Reversed(NewestFirst(table, ids, LatestTime(table)))
                      ELSE NewestFirst(table, ids, LatestTime(table)),
                      page, page_size),
     total |-> Cardinality(ids)]

\* mutant of TotalPages: the last page is not counted when it is not full
TotalPagesFull(total, page_size) == Max({total \div page_size, 1})

\* "max((total + page_size - 1) // page_size, 1)"
TotalPages(total, page_size) == Max({(total + page_size - 1) \div page_size, 1})

\* "list(range(max(1, current_page - 2), min(total_pages, current_page + 2) + 1))"
PageNumbers(current_page, total_pages) ==
    LET first == Max({1, current_page - 2})
        last == Min({total_pages, current_page + 2})
    IN  [k \in 1..(last + 1 - first) |-> first + k - 1]

\* the second call of the list, "if current_page != safe_page", and the
\* values the template gets
PagedAgain(table, ids, sort, safe_page, current_page, got) ==
    [news_items |-> IF current_page # safe_page
                    THEN list_news_page(table, ids, current_page, PageSize, sort).items
                    ELSE got.items,
     fetched |-> IF current_page # safe_page THEN <<safe_page, current_page>>
                 ELSE <<safe_page>>,
     page |-> current_page,
     total_pages |-> TotalPages(got.total, PageSize),
     total_items |-> got.total,
     page_numbers |-> PageNumbers(current_page, TotalPages(got.total, PageSize))]

\* "safe_page = max(int(page or 1), 1)" up to the template context
Paged(table, ids, sort, page) ==
    LET safe_page == Max({IF page = 0 THEN 1 ELSE page, 1})
        got == list_news_page(table, ids, safe_page, PageSize, sort)
    IN  PagedAgain(table, ids, sort, safe_page,
                   Min({safe_page, TotalPages(got.total, PageSize)}), got)

\* the page and sort parameters of GET /news, the news_page and news_status
\* parameters of GET /admin
PageArgs == -1..(MaxNews \div PageSize + 2)
Sorts == {"latest", "oldest", "x"}
Statuses == {"all", "published", "draft", "x"}

\* GET /news, one request on the table at hand
NewsListPage ==
    \E page \in PageArgs, sort \in Sorts :
        /\ resp = Idle
        /\ resp' = [op |-> "news_list_page", status |-> 200, template |-> "news_list.html",
                    requested |-> page,
                    sort |-> IF sort \in {"latest", "oldest"} THEN sort ELSE "latest",
                    paged |-> Paged(news, {i \in DOMAIN news : news[i].is_published},
                                    IF sort \in {"latest", "oldest"} THEN sort ELSE "latest",
                                    page)]
        /\ UNCHANGED <<item, home, news>>

\* the rows the admin list shows for a status
StatusIds(table, safe_status) ==
    {i \in DOMAIN table : \/ safe_status = "all"
                          \/ safe_status = "published" /\ table[i].is_published
                          \/ safe_status = "draft" /\ ~table[i].is_published}

\* "if safe_status not in {"all", "published", "draft"}: safe_status = "all""
SafeStatus(news_status) ==
    IF news_status \in {"all", "published", "draft"} THEN news_status ELSE "all"

\* GET /admin with its news list, one request on the table at hand: the
\* home part of the context and the page of news
AdminNewsList ==
    \E token \in Tokens, news_page \in PageArgs, news_status \in Statuses :
        LET r == admin_home(home, token)
        IN  /\ resp = Idle
            /\ home' = r.home
            /\ resp' = IF r.resp.status # 200 THEN r.resp
                       ELSE r.resp @@
                            [requested |-> news_page,
                             news_status |-> SafeStatus(news_status),
                             paged |-> Paged(news, StatusIds(news, SafeStatus(news_status)),
                                             "latest", news_page)]
            /\ UNCHANGED <<item, news>>

\* tables of 0..MaxNews rows, every third one a draft
ListedNews == {[i \in 1..n |-> DatedRow(i, i % 3 # 0)] : n \in 0..MaxNews}

InitListed ==
    /\ item = NoItem
    /\ home = NoHome
    /\ news \in ListedNews
    /\ resp = Idle

NextListed == NewsListPage \/ AdminNewsList

SpecListed == InitListed /\ [][NextListed]_vars

\* ------------------------------------------------------------ C30
ListRan == resp.op \in {"news_list_page", "admin_home"} /\ resp.status = 200

\* the rows the list is about: the published ones for the public page, the
\* ones of the status asked for in the admin list
ListedCount ==
    Cardinality({i \in DOMAIN news :
                   \/ resp.op = "admin_home" /\ resp.news_status = "all"
                   \/ resp.op = "admin_home" /\ resp.news_status = "draft"
                        /\ ~news[i].is_published
                   \/ resp.op = "admin_home" /\ resp.news_status = "published"
                        /\ news[i].is_published
                   \/ resp.op = "news_list_page" /\ news[i].is_published})

\* ceil(total / 10), at least 1: the least n >= 1 with 10 n >= total
CeilPages(total) == CHOOSE n \in 1..(total + 1) : 10 * n >= total /\ (n = 1 \/ 10 * (n - 1) < total)

\* C30: for every requested page number (zero, negative and beyond the last
\* page included) and every total, the public news list page and the admin
\* news list compute total_pages = max(ceil(total / 10), 1), a current page
\* in 1..total_pages that is the requested page clamped, the items of that
\* current page, and page numbers that are the contiguous range from
\* max(1, current - 2) to min(total_pages, current + 2), which contains the
\* current page.
C30_Pagination ==
    ListRan =>
        LET p == resp.paged
            clamped == IF resp.requested < 1 THEN 1
                       ELSE IF resp.requested > p.total_pages THEN p.total_pages
                       ELSE resp.requested
        IN  /\ p.total_items = ListedCount
            /\ p.total_pages = CeilPages(ListedCount)
            /\ p.page \in 1..p.total_pages
            /\ p.page = clamped
            /\ p.fetched[Len(p.fetched)] = p.page
            /\ Len(p.news_items) = IF p.page < p.total_pages THEN 10
                                   ELSE ListedCount - 10 * (p.total_pages - 1)
            /\ p.page_numbers # <<>>
            /\ p.page_numbers[1] = (IF p.page - 2 < 1 THEN 1 ELSE p.page - 2)
            /\ p.page_numbers[Len(p.page_numbers)]
                 = (IF p.page + 2 > p.total_pages THEN p.total_pages ELSE p.page + 2)
            /\ \A k \in 1..(Len(p.page_numbers) - 1) :
                   p.page_numbers[k + 1] = p.page_numbers[k] + 1
            /\ \E k \in DOMAIN p.page_numbers : p.page_numbers[k] = p.page

\* a page beyond the last of a list of several pages with a last page that
\* is not full: the list is fetched again for the last page
C30_Witness ==
    /\ resp.op = "news_list_page"
    /\ resp.paged.total_pages = 4
    /\ resp.requested = 6
    /\ resp.paged.page = 4
    /\ resp.paged.fetched = <<6, 4>>
    /\ resp.paged.page_numbers = <<2, 3, 4>>
    /\ Len(resp.paged.news_items) \in 1..9

====
